---- MODULE Spec2Model ----
(***************************************************************************)
(* Verification model of mlsgit: the group key agreement engine            *)
(* (internal/mls), the delta pipeline (internal/delta) and the commands    *)
(* that persist group state (internal/cli).                                *)
(*                                                                         *)
(* Cryptography is modelled symbolically.  A random draw is a fresh        *)
(* integer, HKDF is an injective term constructor, X25519 is a commutative *)
(* pairing of key-pair identities, and AEAD decryption succeeds exactly    *)
(* under the key the ciphertext was sealed with.                           *)
(***************************************************************************)
EXTENDS Integers, Sequences, FiniteSets, TLC

\* ------------------------------------------------------------------ bounds
MaxPeers == 3
MaxCommits == 3
MaxThreshold == 2

Peers == 1..MaxPeers

VARIABLES
    grp,        \* grp[p]: the groupState of peer p's MLSGitGroup
    joined,     \* peers that hold an MLSGitGroup
    welcomes,   \* encrypted Welcome blobs produced so far
    commits,    \* the committed states AddMember and RemoveMember returned so far,
                \* each with the secret its producer exported at that epoch
    forked,     \* history: a membership change was made from a superseded epoch
    committedFile,  \* the blob at .mlsgit/group/state.b64 of the repository
    chain,      \* the ciphertext of one tracked file: its DeltaRecords in order
    text,       \* the plaintext the writer last encrypted into chain
    readBack,   \* the last DecryptChain or Smudge call: what it was given and returned
    cache,      \* cache[p]: peer p's filter cache entry for the tracked file
    fEpoch,     \* the epoch of the group the filter loads
    threshold,  \* compaction_threshold of the configuration the filter loads
    archiveFile,    \* the blob at .mlsgit/epoch_keys.b64 of the repository
    epochMarker,    \* the epoch written in .mlsgit/epoch.toml
    staged,     \* staged[path]: the blob of a tracked path in the index, 0: not tracked
    manifest,   \* the manifest at .mlsgit/merkle.toml
    lastSeal,   \* history: the index and the manifest as the last seal left them
    verified,   \* what verify reported, when it was the last command to run
    memberFiles,    \* the peers that have a TOML file in .mlsgit/members
    memberIDs    \* memberIDs[q]: the member id peer q generated for itself

groupVars == <<grp, joined, welcomes, commits, forked>>
chainVars == <<chain, text, readBack>>
filterVars == <<cache, fEpoch, threshold>>
sealVars == <<staged, manifest, lastSeal, verified>>
memberVars == <<memberFiles, memberIDs>>
repoVars == <<archiveFile, epochMarker, sealVars, memberVars>>
vars == <<groupVars, committedFile, chainVars, filterVars, repoVars>>

\* ------------------------------------------------------- symbolic primitives
\* crypto/rand: the draw made by peer p in the operation it runs at local
\* epoch e.  Every drawing operation advances p's epoch, so draws are distinct.
FreshId(p, e) == 1000 * p + 10 * (e + 1)

\* GenerateMLSKeys: peer p's X25519 key pair is identified by p.
InitPrivOf(p) == p
InitPubOf(p) == p
SigPubOf(p) == p

\* curve25519.X25519(priv, pub): X25519(a, pub(b)) = X25519(b, pub(a)).
X25519(priv, pub) == IF priv <= pub THEN <<priv, pub>> ELSE <<pub, priv>>

\* hkdf.New(sha256.New, dhShared, epochBytes, "mlsgit-encap")
deriveEncapKey(dhShared, epoch) == dhShared \o <<epoch>>

\* hkdf.New(sha256.New, shared, nil, "mlsgit-welcome")
deriveWelcomeKey(shared) == shared \o <<-1>>

\* AESGCMEncrypt / AESGCMDecrypt: the sealed box remembers its key; opening
\* under any other key is an authentication failure.
AESGCMEncrypt(key, plaintext) == [key |-> key, pt |-> plaintext]
AESGCMDecryptOK(key, box) == box.key = key

\* The update secret of the deterministic advance (none is mixed in).
NoUpdate == 0

\* hkdf.New(sha256.New, ikm, be64(epoch), "mlsgit-epoch-advance") with
\* ikm = oldSecret (deterministic) or oldSecret || updateSecret (DH).
HKDFAdvance(oldSecret, updateSecret, epoch) ==
    Append(oldSecret, <<epoch, updateSecret>>)

\* exportSecret(epochSecret, "mlsgit-epoch-secret", nil, 32)
exportSecret(epochSecret) == [label |-> "mlsgit-epoch-secret", ikm |-> epochSecret]

ExportEpochSecret(g) == exportSecret(g.epoch_secret)

\* ------------------------------------------------------------- group state
\* The zero groupState of a peer that holds no group.
NoGroup ==
    [group_id |-> 0, epoch |-> 0, epoch_secret |-> <<>>, members |-> <<>>,
     own_leaf_index |-> 0, update_encaps |-> <<>>]

GroupId == 7

\* No blob at a location of the repository.
NoFile == [absent |-> TRUE]

\* The tracked paths and the blobs a path can be staged with.
MaxFiles == 3
Paths == 1..MaxFiles
Blobs == {1, 2}

\* No file is tracked, nothing was sealed and verify has not run.
NoVerdict == [report |-> "none", panicked |-> FALSE]
NoSeal ==
    /\ staged = [path \in Paths |-> 0]
    /\ manifest = NoFile
    /\ lastSeal = NoFile
    /\ verified = NoVerdict

\* generateMemberID: the first 12 hex digits of a hash of the name and the
\* clock; ids are told apart by their order only, and any order can come out:
\* the ids sort as the peers do, or the opposite way.
MemberIDAssignments ==
    {[q \in Peers |-> q], [q \in Peers |-> MaxPeers + 1 - q]}

\* The members directory is empty.
NoMembers ==
    /\ memberFiles = {}
    /\ memberIDs = [q \in Peers |-> q]

\* No DecryptChain call has been made on the current chain.
NoRead == [rec |-> 0, field |-> "none", stored |-> <<>>, passed |-> FALSE,
           res |-> [err |-> "none", text |-> <<>>]]

\* An empty filter cache entry: GetPlaintext returns nil and GetCiphertext
\* returns ("", false).
NoEntry == [hasPlain |-> FALSE, plain |-> <<>>, hasCT |-> FALSE, ct |-> <<>>]

Create(p) ==
    [group_id |-> GroupId, epoch |-> 0,
     epoch_secret |-> << <<-1, FreshId(p, -1)>> >>,
     members |-> << [sig_pub |-> SigPubOf(p), init_pub |-> InitPubOf(p), active |-> TRUE] >>,
     own_leaf_index |-> 0, update_encaps |-> <<>>]

\* Variant: the commit is the marshalled full state.
ToCommittedBytesFullState(g) ==
    [group_id |-> g.group_id, epoch |-> g.epoch, epoch_secret |-> g.epoch_secret,
     members |-> g.members, own_leaf_index |-> g.own_leaf_index,
     update_encaps |-> g.update_encaps]

\* ToCommittedBytes: json.Marshal(committedGroupState{...}); update_encaps
\* carries omitempty.
ToCommittedBytes(g) ==
    IF g.update_encaps = <<>>
    THEN [group_id |-> g.group_id, epoch |-> g.epoch, members |-> g.members]
    ELSE [group_id |-> g.group_id, epoch |-> g.epoch, members |-> g.members,
          update_encaps |-> g.update_encaps]

\* json.Marshal(g.state): the full local state, secret included.
ToBytes(g) ==
    IF g.update_encaps = <<>>
    THEN [group_id |-> g.group_id, epoch |-> g.epoch, epoch_secret |-> g.epoch_secret,
          members |-> g.members, own_leaf_index |-> g.own_leaf_index]
    ELSE [group_id |-> g.group_id, epoch |-> g.epoch, epoch_secret |-> g.epoch_secret,
          members |-> g.members, own_leaf_index |-> g.own_leaf_index,
          update_encaps |-> g.update_encaps]

\* json.Unmarshal(bytes, &committedGroupState): fails on bytes that are not a
\* JSON object, ignores unknown keys, leaves absent keys at their zero value.
UnmarshalOK(bytes) == "garbage" \notin DOMAIN bytes

UnmarshalCommitted(bytes) ==
    [group_id |-> IF "group_id" \in DOMAIN bytes THEN bytes.group_id ELSE 0,
     epoch |-> IF "epoch" \in DOMAIN bytes THEN bytes.epoch ELSE 0,
     members |-> IF "members" \in DOMAIN bytes THEN bytes.members ELSE <<>>,
     update_encaps |-> IF "update_encaps" \in DOMAIN bytes THEN bytes.update_encaps ELSE <<>>]

\* Variant: the deterministic ratchet counts two epochs.
advanceEpochSkip(g) ==
    [g EXCEPT !.epoch_secret = HKDFAdvance(g.epoch_secret, NoUpdate, g.epoch),
              !.epoch = g.epoch + 2]

\* advanceEpoch: deterministic ratchet.
advanceEpoch(g) ==
    [g EXCEPT !.epoch_secret = HKDFAdvance(g.epoch_secret, NoUpdate, g.epoch),
              !.epoch = g.epoch + 1]

\* Variant: the entries loop does not skip inactive leaves.
RECURSIVE EncapEntriesAllLeaves(_, _, _, _, _)
EncapEntriesAllLeaves(members, i, ephPriv, updateSecret, epoch) ==
    IF i > Len(members) THEN <<>>
    ELSE << [leaf_index |-> i - 1,
             ciphertext |-> AESGCMEncrypt(
                 deriveEncapKey(X25519(ephPriv, members[i].init_pub), epoch),
                 updateSecret)] >>
         \o EncapEntriesAllLeaves(members, i + 1, ephPriv, updateSecret, epoch)

\* The entries loop of advanceEpochDH: one entry per active leaf, in order.
RECURSIVE EncapEntries(_, _, _, _, _)
EncapEntries(members, i, ephPriv, updateSecret, epoch) ==
    IF i > Len(members) THEN <<>>
    ELSE LET rest == EncapEntries(members, i + 1, ephPriv, updateSecret, epoch)
         IN  IF ~members[i].active THEN rest
             ELSE << [leaf_index |-> i - 1,
                      ciphertext |-> AESGCMEncrypt(
                          deriveEncapKey(X25519(ephPriv, members[i].init_pub), epoch),
                          updateSecret)] >> \o rest

\* Variant: the DH advance forgets to increment the epoch counter.
advanceEpochDHNoIncrement(g, p) ==
    LET updateSecret == FreshId(p, g.epoch) + 1
        ephPriv == FreshId(p, g.epoch) + 2
        entries == EncapEntries(g.members, 1, ephPriv, updateSecret, g.epoch)
    IN  [g EXCEPT
            !.update_encaps = Append(g.update_encaps,
                [from_epoch |-> g.epoch, eph_pub |-> ephPriv, entries |-> entries]),
            !.epoch_secret = HKDFAdvance(g.epoch_secret, updateSecret, g.epoch)]

\* advanceEpochDH, run by peer p: fresh update secret and ephemeral key pair.
advanceEpochDH(g, p) ==
    LET updateSecret == FreshId(p, g.epoch) + 1
        ephPriv == FreshId(p, g.epoch) + 2
        entries == EncapEntries(g.members, 1, ephPriv, updateSecret, g.epoch)
    IN  [g EXCEPT
            !.update_encaps = Append(g.update_encaps,
                [from_epoch |-> g.epoch, eph_pub |-> ephPriv, entries |-> entries]),
            !.epoch_secret = HKDFAdvance(g.epoch_secret, updateSecret, g.epoch),
            !.epoch = g.epoch + 1]

\* The first index a range loop stops at, given the set of indices that
\* match; 0 when none does.
FirstIndex(matching) ==
    IF matching = {} THEN 0
    ELSE CHOOSE i \in matching : \A j \in matching : i <= j

\* Variant: the decapsulated update secret is not mixed into the new secret.
applyDHAdvanceNoMix(g, initPriv, enc) ==
    LET k == FirstIndex({i \in 1..Len(enc.entries) :
                            enc.entries[i].leaf_index = g.own_leaf_index})
    IN  IF k = 0 THEN [err |-> TRUE, g |-> g]
        ELSE [err |-> FALSE,
              g |-> [g EXCEPT
                  !.epoch_secret = HKDFAdvance(g.epoch_secret, NoUpdate, g.epoch),
                  !.epoch = g.epoch + 1]]

\* applyDHAdvance: returns [err, g].
applyDHAdvance(g, initPriv, enc) ==
    LET k == FirstIndex({i \in 1..Len(enc.entries) :
                            enc.entries[i].leaf_index = g.own_leaf_index})
    IN  IF k = 0 THEN [err |-> TRUE, g |-> g]
        ELSE LET e == enc.entries[k]
                 decKey == deriveEncapKey(X25519(initPriv, enc.eph_pub), g.epoch)
             IN  IF ~AESGCMDecryptOK(decKey, e.ciphertext) THEN [err |-> TRUE, g |-> g]
                 ELSE [err |-> FALSE,
                       g |-> [g EXCEPT
                           !.epoch_secret = HKDFAdvance(g.epoch_secret, e.ciphertext.pt, g.epoch),
                           !.epoch = g.epoch + 1]]

\* Variant: a transition whose encapsulation has no entry for the own leaf is
\* taken as a deterministic one.
advanceOneEpochSkipMissing(g, initPriv, encaps) ==
    LET k == FirstIndex({i \in 1..Len(encaps) : encaps[i].from_epoch = g.epoch})
    IN  IF k # 0 /\ ~applyDHAdvance(g, initPriv, encaps[k]).err
        THEN applyDHAdvance(g, initPriv, encaps[k])
        ELSE [err |-> FALSE, g |-> advanceEpoch(g)]

\* advanceOneEpoch: DH decapsulation when an encap exists for the current
\* epoch, deterministic advance otherwise.
advanceOneEpoch(g, initPriv, encaps) ==
    LET k == FirstIndex({i \in 1..Len(encaps) : encaps[i].from_epoch = g.epoch})
    IN  IF k # 0 THEN applyDHAdvance(g, initPriv, encaps[k])
        ELSE [err |-> FALSE, g |-> advanceEpoch(g)]

\* The loop `for g.state.Epoch < committed.Epoch` of ApplyCommit and
\* SyncFromCommitted: stops at the first failing step, keeping what the
\* earlier steps wrote.
RECURSIVE Ratchet(_, _, _)
Ratchet(g, initPriv, committed) ==
    IF g.epoch >= committed.epoch THEN [err |-> FALSE, g |-> g]
    ELSE LET r == advanceOneEpoch(g, initPriv, committed.update_encaps)
         IN  IF r.err THEN r ELSE Ratchet(r.g, initPriv, committed)

\* The same loop followed for at most n calls of advanceOneEpoch: the local
\* state after each call, and how the loop stood then: "done" (the loop
\* condition is false), "abort" (the last call returned an error), "running"
\* (the loop goes on after n calls).
RECURSIVE RatchetRun(_, _, _, _)
RatchetRun(g, initPriv, committed, n) ==
    IF g.epoch >= committed.epoch THEN [end |-> "done", steps |-> <<>>]
    ELSE IF n = 0 THEN [end |-> "running", steps |-> <<>>]
    ELSE LET r == advanceOneEpoch(g, initPriv, committed.update_encaps)
         IN  IF r.err THEN [end |-> "abort", steps |-> <<r.g>>]
             ELSE LET rest == RatchetRun(r.g, initPriv, committed, n - 1)
                  IN  [end |-> rest.end, steps |-> <<r.g>> \o rest.steps]

\* Variant: the committed encapsulations are not taken over.
ApplyCommitKeepEncaps(g, initPriv, bytes) ==
    IF ~UnmarshalOK(bytes) THEN [err |-> TRUE, g |-> g]
    ELSE LET committed == UnmarshalCommitted(bytes)
         IN  IF committed.epoch <= g.epoch THEN [err |-> FALSE, g |-> g]
             ELSE LET r == Ratchet(g, initPriv, committed)
                  IN  IF r.err THEN r
                      ELSE [err |-> FALSE,
                            g |-> [r.g EXCEPT !.group_id = committed.group_id,
                                              !.members = committed.members]]

\* ApplyCommit: returns [err, g].
ApplyCommit(g, initPriv, bytes) ==
    IF ~UnmarshalOK(bytes) THEN [err |-> TRUE, g |-> g]
    ELSE LET committed == UnmarshalCommitted(bytes)
         IN  IF committed.epoch <= g.epoch THEN [err |-> FALSE, g |-> g]
             ELSE LET r == Ratchet(g, initPriv, committed)
                  IN  IF r.err THEN r
                      ELSE [err |-> FALSE,
                            g |-> [r.g EXCEPT !.group_id = committed.group_id,
                                              !.members = committed.members,
                                              !.update_encaps = committed.update_encaps]]

\* Variant: the catch-up loop performs a single step.
SyncFromCommittedOneStep(g, initPriv, bytes) ==
    IF ~UnmarshalOK(bytes) THEN [ret |-> FALSE, g |-> g]
    ELSE LET committed == UnmarshalCommitted(bytes)
             ownLeaf == g.own_leaf_index
         IN  IF committed.epoch <= g.epoch THEN [ret |-> FALSE, g |-> g]
             ELSE IF ownLeaf >= Len(committed.members)
                     \/ ~committed.members[ownLeaf + 1].active
             THEN [ret |-> FALSE, g |-> g]
             ELSE LET r == advanceOneEpoch(g, initPriv, committed.update_encaps)
                  IN  IF r.err THEN [ret |-> FALSE, g |-> r.g]
                      ELSE [ret |-> TRUE,
                            g |-> [r.g EXCEPT !.group_id = committed.group_id,
                                              !.members = committed.members,
                                              !.update_encaps = committed.update_encaps]]

\* SyncFromCommitted: returns [ret, g].
SyncFromCommitted(g, initPriv, bytes) ==
    IF ~UnmarshalOK(bytes) THEN [ret |-> FALSE, g |-> g]
    ELSE LET committed == UnmarshalCommitted(bytes)
             ownLeaf == g.own_leaf_index
         IN  IF committed.epoch < g.epoch THEN [ret |-> FALSE, g |-> g]
             ELSE IF committed.epoch = g.epoch
             THEN IF Len(committed.update_encaps) > Len(g.update_encaps)
                  THEN [ret |-> TRUE,
                        g |-> [g EXCEPT !.update_encaps = committed.update_encaps]]
                  ELSE [ret |-> FALSE, g |-> g]
             ELSE IF ownLeaf >= Len(committed.members)
                     \/ ~committed.members[ownLeaf + 1].active
             THEN [ret |-> FALSE, g |-> g]
             ELSE LET r == Ratchet(g, initPriv, committed)
                  IN  IF r.err THEN [ret |-> FALSE, g |-> r.g]
                      ELSE [ret |-> TRUE,
                            g |-> [r.g EXCEPT !.group_id = committed.group_id,
                                              !.members = committed.members,
                                              !.own_leaf_index = ownLeaf,
                                              !.update_encaps = committed.update_encaps]]

\* Variant: the Welcome key is derived from the ephemeral key alone.
EncryptWelcomeNoRecipient(recipientPub, plaintext, ephPriv) ==
    [eph_pub |-> ephPriv,
     box |-> AESGCMEncrypt(deriveWelcomeKey(X25519(ephPriv, ephPriv)), plaintext)]

\* EncryptWelcome(recipientPub, plaintext) with ephemeral private key ephPriv.
EncryptWelcome(recipientPub, plaintext, ephPriv) ==
    [eph_pub |-> ephPriv,
     box |-> AESGCMEncrypt(deriveWelcomeKey(X25519(ephPriv, recipientPub)), plaintext)]

\* DecryptWelcome succeeds iff the AEAD opens under the recipient's key.
DecryptWelcomeOK(recipientPriv, encrypted) ==
    AESGCMDecryptOK(deriveWelcomeKey(X25519(recipientPriv, encrypted.eph_pub)), encrypted.box)

\* BuildKeyPackage for peer q.
BuildKeyPackage(q) == [sig_pub |-> SigPubOf(q), init_pub |-> InitPubOf(q)]

\* An init_pub that X25519 refuses: bytes of another length than 32, or a
\* low-order point.  A KeyPackageData is unmarshalled from a pending request
\* without a check of its fields.
BadPoint == -2
KeyPackages ==
    {BuildKeyPackage(q) : q \in Peers}
    \cup {[sig_pub |-> SigPubOf(q), init_pub |-> BadPoint] : q \in Peers}

\* EncryptWelcome returns an error: the length check or the ECDH fails.
EncryptWelcomeFails(recipientPub) == recipientPub = BadPoint

\* advanceEpochDH returns an error: the ECDH with an active member fails,
\* before the encapsulation is recorded.
advanceEpochDHFails(g) ==
    \E i \in 1..Len(g.members) : g.members[i].active /\ g.members[i].init_pub = BadPoint

\* Variant: the new member takes the first inactive leaf when there is one.
AddMemberReuseLeaf(g, p, kp) ==
    LET free == {i \in 1..Len(g.members) : ~g.members[i].active}
        entry == [sig_pub |-> kp.sig_pub, init_pub |-> kp.init_pub, active |-> TRUE]
        newLeafIndex == IF free = {} THEN Len(g.members) ELSE FirstIndex(free) - 1
        g1 == IF free = {}
              THEN [g EXCEPT !.members = Append(g.members, entry)]
              ELSE [g EXCEPT !.members[newLeafIndex + 1] = entry]
        g2 == advanceEpoch(g1)
        welcome == [group_id |-> g2.group_id, epoch |-> g2.epoch,
                    epoch_secret |-> g2.epoch_secret, members |-> g2.members,
                    leaf_index |-> newLeafIndex, update_encaps |-> g2.update_encaps]
    IN  [g |-> g2,
         commit |-> ToCommittedBytes(g2),
         welcome |-> EncryptWelcome(kp.init_pub, welcome, FreshId(p, g.epoch) + 3)]

\* AddMember run by peer p: returns [err, g, commit, welcome]; g is the state
\* the call leaves behind, on the error path too.
AddMember(g, p, kp) ==
    LET newLeafIndex == Len(g.members)
        g1 == [g EXCEPT !.members = Append(g.members,
                  [sig_pub |-> kp.sig_pub, init_pub |-> kp.init_pub, active |-> TRUE])]
        g2 == advanceEpoch(g1)
        welcome == [group_id |-> g2.group_id, epoch |-> g2.epoch,
                    epoch_secret |-> g2.epoch_secret, members |-> g2.members,
                    leaf_index |-> newLeafIndex, update_encaps |-> g2.update_encaps]
    IN  IF EncryptWelcomeFails(kp.init_pub)
        THEN [err |-> TRUE, g |-> g2, commit |-> <<>>, welcome |-> <<>>]
        ELSE [err |-> FALSE, g |-> g2,
              commit |-> ToCommittedBytes(g2),
              welcome |-> EncryptWelcome(kp.init_pub, welcome, FreshId(p, g.epoch) + 3)]

\* Variant: the leaf is marked inactive before the self check.
RemoveMemberMarkFirst(g, p, leafIndex) ==
    IF leafIndex < 0 \/ leafIndex >= Len(g.members)
    THEN [err |-> TRUE, g |-> g, commit |-> <<>>]
    ELSE LET g1 == [g EXCEPT !.members[leafIndex + 1].active = FALSE]
         IN  IF leafIndex = g.own_leaf_index
             THEN [err |-> TRUE, g |-> g1, commit |-> <<>>]
             ELSE LET g2 == advanceEpochDH(g1, p)
                  IN  [err |-> FALSE, g |-> g2, commit |-> ToCommittedBytes(g2)]

\* RemoveMember run by peer p: returns [err, g, commit]; g is the state the
\* call leaves behind, on the error paths too.
RemoveMember(g, p, leafIndex) ==
    IF leafIndex < 0 \/ leafIndex >= Len(g.members)
    THEN [err |-> TRUE, g |-> g, commit |-> <<>>]
    ELSE IF leafIndex = g.own_leaf_index
    THEN [err |-> TRUE, g |-> g, commit |-> <<>>]
    ELSE LET g1 == [g EXCEPT !.members[leafIndex + 1].active = FALSE]
             g2 == advanceEpochDH(g1, p)
         IN  IF advanceEpochDHFails(g1)
             THEN [err |-> TRUE, g |-> g1, commit |-> <<>>]
             ELSE [err |-> FALSE, g |-> g2, commit |-> ToCommittedBytes(g2)]

\* Variant: the joiner takes the position after the last member as its leaf.
JoinFromWelcomeLeafPastEnd(w) ==
    [group_id |-> w.group_id, epoch |-> w.epoch, epoch_secret |-> w.epoch_secret,
     members |-> w.members, own_leaf_index |-> Len(w.members),
     update_encaps |-> w.update_encaps]

\* JoinFromWelcome: the state installed from a decrypted Welcome.
JoinFromWelcome(w) ==
    [group_id |-> w.group_id, epoch |-> w.epoch, epoch_secret |-> w.epoch_secret,
     members |-> w.members, own_leaf_index |-> w.leaf_index,
     update_encaps |-> w.update_encaps]

\* ------------------------------------------------------------------ actions
\* The highest epoch any peer of the group has reached.
HeadEpoch == CHOOSE e \in 0..(MaxCommits + 1) :
                /\ \E p \in joined : grp[p].epoch = e
                /\ \A p \in joined : grp[p].epoch <= e

HasMember(g, initPub) == \E i \in 1..Len(g.members) : g.members[i].init_pub = initPub

\* MemberCount: the number of active members.
MemberCount(g) == Cardinality({i \in 1..Len(g.members) : g.members[i].active})

DoAddMember(p, q) ==
    /\ p \in joined
    /\ Cardinality(commits) < MaxCommits
    /\ ~HasMember(grp[p], InitPubOf(q))
    /\ LET r == AddMember(grp[p], p, BuildKeyPackage(q))
       IN  /\ grp' = [grp EXCEPT ![p] = r.g]
           /\ welcomes' = welcomes \cup {r.welcome}
           /\ commits' = commits \cup {[bytes |-> r.commit, secret |-> ExportEpochSecret(r.g)]}
    /\ forked' = (forked \/ grp[p].epoch < HeadEpoch)
    /\ UNCHANGED joined
    /\ UNCHANGED <<committedFile, chainVars, filterVars, repoVars>>

DoRemoveMember(p, leafIndex) ==
    /\ p \in joined
    /\ Cardinality(commits) < MaxCommits
    /\ LET r == RemoveMember(grp[p], p, leafIndex)
       IN  IF r.err
           THEN /\ grp' = [grp EXCEPT ![p] = r.g]
                /\ UNCHANGED <<commits, forked>>
           ELSE /\ grp' = [grp EXCEPT ![p] = r.g]
                /\ commits' = commits \cup {[bytes |-> r.commit, secret |-> ExportEpochSecret(r.g)]}
                /\ forked' = (forked \/ grp[p].epoch < HeadEpoch)
    /\ UNCHANGED <<joined, welcomes>>
    /\ UNCHANGED <<committedFile, chainVars, filterVars, repoVars>>

DoJoinFromWelcome(q, w) ==
    /\ q \notin joined
    /\ w \in welcomes
    /\ IF DecryptWelcomeOK(InitPrivOf(q), w)
       THEN /\ grp' = [grp EXCEPT ![q] = JoinFromWelcome(w.box.pt)]
            /\ joined' = joined \cup {q}
       ELSE UNCHANGED <<grp, joined>>
    /\ UNCHANGED <<welcomes, commits, forked>>
    /\ UNCHANGED <<committedFile, chainVars, filterVars, repoVars>>

\* Committed bytes reach a peer from the repository: any committed state a
\* member's AddMember or RemoveMember returned, old or new.
Committed == {c.bytes : c \in commits}

DoApplyCommit(p, bytes) ==
    /\ p \in joined
    /\ bytes \in Committed
    /\ grp' = [grp EXCEPT ![p] = ApplyCommit(grp[p], InitPrivOf(p), bytes).g]
    /\ UNCHANGED <<joined, welcomes, commits, forked>>
    /\ UNCHANGED <<committedFile, chainVars, filterVars, repoVars>>

DoSyncFromCommitted(p, bytes) ==
    /\ p \in joined
    /\ bytes \in Committed
    /\ grp' = [grp EXCEPT ![p] = SyncFromCommitted(grp[p], InitPrivOf(p), bytes).g]
    /\ UNCHANGED <<joined, welcomes, commits, forked>>
    /\ UNCHANGED <<committedFile, chainVars, filterVars, repoVars>>

Init ==
    /\ grp = [p \in Peers |-> IF p = 1 THEN Create(1) ELSE NoGroup]
    /\ joined = {1}
    /\ welcomes = {}
    /\ commits = {}
    /\ forked = FALSE
    /\ committedFile = NoFile
    /\ chain = <<>>
    /\ text = <<>>
    /\ readBack = NoRead
    /\ cache = [p \in Peers |-> NoEntry]
    /\ fEpoch = 0
    /\ threshold = MaxThreshold
    /\ archiveFile = NoFile
    /\ epochMarker = 0
    /\ NoSeal
    /\ NoMembers

Next ==
    \/ \E p \in Peers, q \in Peers : DoAddMember(p, q)
    \/ \E p \in Peers, leaf \in -1..MaxPeers : DoRemoveMember(p, leaf)
    \/ \E q \in Peers, w \in welcomes : DoJoinFromWelcome(q, w)
    \/ \E p \in Peers : \E bytes \in Committed : DoApplyCommit(p, bytes)
    \/ \E p \in Peers : \E bytes \in Committed : DoSyncFromCommitted(p, bytes)

Spec == Init /\ [][Next]_vars

\* ------------------------------------------------------ storage adversary
\* The repository host controls the committed bytes a peer reads: it may
\* serve bytes that are not JSON, or a committed state edited in place.
TamperKinds == {"none", "garbage", "all_active", "no_entries"}

Tamper(kind, bytes) ==
    LET c == UnmarshalCommitted(bytes)
    IN  CASE kind = "garbage" -> [garbage |-> TRUE]
          [] kind = "all_active" ->
                [group_id |-> c.group_id, epoch |-> c.epoch,
                 members |-> [i \in 1..Len(c.members) |-> [c.members[i] EXCEPT !.active = TRUE]],
                 update_encaps |-> c.update_encaps]
          [] kind = "no_entries" ->
                [group_id |-> c.group_id, epoch |-> c.epoch, members |-> c.members,
                 update_encaps |-> [i \in 1..Len(c.update_encaps) |->
                                       [c.update_encaps[i] EXCEPT !.entries = <<>>]]]
          [] OTHER -> bytes

\* Every committed-bytes input a peer can be handed in the current state.
StorageInputs == {Tamper(k, bytes) : k \in TamperKinds, bytes \in Committed}

\* Committed bytes whose epoch field was edited as well.
RatchetInputs ==
    StorageInputs
    \cup {[bytes EXCEPT !.epoch = e] : bytes \in Committed, e \in 0..(MaxCommits + 1)}

DoSyncFromStorage(p, bytes) ==
    /\ p \in joined
    /\ bytes \in StorageInputs
    /\ grp' = [grp EXCEPT ![p] = SyncFromCommitted(grp[p], InitPrivOf(p), bytes).g]
    /\ UNCHANGED <<joined, welcomes, commits, forked>>
    /\ UNCHANGED <<committedFile, chainVars, filterVars, repoVars>>

DoApplyFromStorage(p, bytes) ==
    /\ p \in joined
    /\ bytes \in StorageInputs
    /\ grp' = [grp EXCEPT ![p] = ApplyCommit(grp[p], InitPrivOf(p), bytes).g]
    /\ UNCHANGED <<joined, welcomes, commits, forked>>
    /\ UNCHANGED <<committedFile, chainVars, filterVars, repoVars>>

\* Under the storage adversary the members themselves keep one history:
\* a peer changes the membership only from the head epoch.
AtHead(p) == p \in joined /\ grp[p].epoch = HeadEpoch

NextStorage ==
    \/ \E p \in Peers, q \in Peers : AtHead(p) /\ DoAddMember(p, q)
    \/ \E p \in Peers, leaf \in -1..MaxPeers : AtHead(p) /\ DoRemoveMember(p, leaf)
    \/ \E q \in Peers, w \in welcomes : DoJoinFromWelcome(q, w)
    \/ \E p \in Peers : \E bytes \in StorageInputs : DoSyncFromStorage(p, bytes)
    \/ \E p \in Peers : \E bytes \in StorageInputs : DoApplyFromStorage(p, bytes)

SpecStorage == Init /\ [][NextStorage]_vars

\* ---------------------------------------------------------- delta pipeline
MaxTextLen == 1
MaxDeltas == 2
MaxFileEpoch == 1

\* Plaintexts: strings over a two-letter alphabet.
Texts == UNION {[1..n -> {"a", "b"}] : n \in 0..MaxTextLen}

\* The tracked file, its writer and the writer's Ed25519 key pair.
FilePath == "f.txt"
Author == "alice"
Authors == {"alice", "bob"}
SigningKeyOf(author) == [ed25519 |-> author]
PublicKeyOf(author) == [ed25519 |-> author]

\* The writer's epoch key archive: the exported secret of every epoch so far.
ArchiveEpochs == 0..MaxFileEpoch
EpochSecretAt(epoch) == [label |-> "mlsgit-epoch-secret", epoch |-> epoch]

\* EpochSecretFunc / PublicKeyFunc handed to DecryptChain: a lookup that fails
\* on an epoch or author it does not know.
getEpochSecret(epoch) ==
    IF epoch \in ArchiveEpochs THEN [err |-> FALSE, secret |-> EpochSecretAt(epoch)]
    ELSE [err |-> TRUE, secret |-> <<>>]
getPublicKey(author) ==
    IF author \in Authors THEN [err |-> FALSE, pub |-> PublicKeyOf(author)]
    ELSE [err |-> TRUE, pub |-> <<>>]

\* hkdf.New(sha256.New, epochSecret, filePath, "mlsgit-file-key" || be64(epoch))
DeriveFileKey(epochSecret, filePath, epoch) ==
    [ikm |-> epochSecret, salt |-> filePath, info |-> epoch]

\* AESGCMEncrypt with the nonce it drew: returns the pair (iv, ct).  The
\* ciphertext carries the GCM tag; tag = "ok" is the tag the sealing computed.
AESGCMSeal(key, plaintext, nonce) ==
    [iv |-> nonce, ct |-> [key |-> key, iv |-> nonce, pt |-> plaintext, tag |-> "ok"]]

\* AESGCMDecrypt(key, iv, ct): fails unless key, nonce and tag all match.
AESGCMDecrypt(key, iv, ct) ==
    IF ct.key = key /\ ct.iv = iv /\ ct.tag = "ok"
    THEN [err |-> FALSE, pt |-> ct.pt]
    ELSE [err |-> TRUE, pt |-> <<>>]

\* ed25519.Sign / ed25519.Verify
Sign(privateKey, data) == [signer |-> privateKey.ed25519, data |-> data]
Verify(publicKey, data, sig) == sig.signer = publicKey.ed25519 /\ sig.data = data

\* hashPrefix: hex SHA-256 of the ciphertext so far (collision free).
hashPrefix(data) == [sha256 |-> data]

\* The PrevHash of a base block is the empty string.
EmptyHash == [sha256 |-> <<>>]

\* Variant: the base block is counted as a delta.
CountDeltasWithBase(ciphertext) == Len(ciphertext)

\* strings.Count(ciphertext, DeltaSeparator)
CountDeltas(ciphertext) == Len(ciphertext) - 1

\* The nonce drawn for the record appended to a chain of n records.
NonceAt(n) == [nonce |-> n]

\* Length of the longest common prefix of two strings.
RECURSIVE CommonPrefix(_, _)
CommonPrefix(a, b) ==
    IF a # <<>> /\ b # <<>> /\ Head(a) = Head(b)
    THEN 1 + CommonPrefix(Tail(a), Tail(b))
    ELSE 0

Reverse(s) == [i \in 1..Len(s) |-> s[Len(s) + 1 - i]]

\* ComputeDelta: PatchMake + PatchToText.  One hunk: at offset pos, the run
\* del of oldText is replaced by ins; no hunk when the texts are equal.
ComputeDelta(oldText, newText) ==
    IF oldText = newText THEN <<>>
    ELSE LET pre == CommonPrefix(oldText, newText)
             restOld == SubSeq(oldText, pre + 1, Len(oldText))
             restNew == SubSeq(newText, pre + 1, Len(newText))
             suf == CommonPrefix(Reverse(restOld), Reverse(restNew))
         IN  << [pos |-> pre,
                 del |-> SubSeq(restOld, 1, Len(restOld) - suf),
                 ins |-> SubSeq(restNew, 1, Len(restNew) - suf)] >>

\* ApplyDelta: PatchFromText + PatchApply; an error when a hunk does not
\* find the text it replaces.
ApplyDelta(oldText, delta) ==
    IF delta = <<>> THEN [err |-> FALSE, text |-> oldText]
    ELSE LET h == delta[1]
         IN  IF h.pos + Len(h.del) <= Len(oldText)
                /\ SubSeq(oldText, h.pos + 1, h.pos + Len(h.del)) = h.del
             THEN [err |-> FALSE,
                   text |-> SubSeq(oldText, 1, h.pos) \o h.ins
                            \o SubSeq(oldText, h.pos + Len(h.del) + 1, Len(oldText))]
             ELSE [err |-> TRUE, text |-> <<>>]

\* EncryptBaseBlock: the chain holding the single base record.
EncryptBaseBlock(plaintext, epochSecret, filePath, epoch, author, privateKey) ==
    LET key == DeriveFileKey(epochSecret, filePath, epoch)
        sealed == AESGCMSeal(key, plaintext, NonceAt(0))
        sigData == <<sealed.iv, sealed.ct>>
    IN  << [epoch |-> epoch, seq |-> 0, iv |-> sealed.iv, ct |-> sealed.ct,
            sig |-> Sign(privateKey, sigData), author |-> author,
            prev_hash |-> EmptyHash, file_path |-> filePath] >>

\* Variant: the delta record links to the hash of the empty string.
EncryptDeltaNoLink(deltaText, epochSecret, filePath, epoch, seq, author, privateKey, prevCiphertext) ==
    LET key == DeriveFileKey(epochSecret, filePath, epoch)
        sealed == AESGCMSeal(key, deltaText, NonceAt(Len(prevCiphertext)))
        sigData == <<sealed.iv, sealed.ct>>
    IN  Append(prevCiphertext,
               [epoch |-> epoch, seq |-> seq, iv |-> sealed.iv, ct |-> sealed.ct,
                sig |-> Sign(privateKey, sigData), author |-> author,
                prev_hash |-> EmptyHash, file_path |-> filePath])

\* EncryptDelta: prevCiphertext + DeltaSeparator + the new record.
EncryptDelta(deltaText, epochSecret, filePath, epoch, seq, author, privateKey, prevCiphertext) ==
    LET key == DeriveFileKey(epochSecret, filePath, epoch)
        sealed == AESGCMSeal(key, deltaText, NonceAt(Len(prevCiphertext)))
        sigData == <<sealed.iv, sealed.ct>>
    IN  Append(prevCiphertext,
               [epoch |-> epoch, seq |-> seq, iv |-> sealed.iv, ct |-> sealed.ct,
                sig |-> Sign(privateKey, sigData), author |-> author,
                prev_hash |-> hashPrefix(prevCiphertext), file_path |-> filePath])

\* DeltaRecordFromB64 succeeds: the block is base64 of a JSON object.
ParsesAsRecord(block) == "garbage" \notin DOMAIN block

\* The checks DecryptChain makes on one record after its hash link: returns
\* [err, pt] with err the error the code returns, "none" on success.
OpenRecord(record, filePath) ==
    LET path == IF record.file_path = "" THEN filePath ELSE record.file_path
        sec == getEpochSecret(record.epoch)
        pub == getPublicKey(record.author)
    IN  IF sec.err THEN [err |-> "get epoch secret", pt |-> <<>>]
        ELSE IF pub.err THEN [err |-> "get public key", pt |-> <<>>]
        ELSE IF ~Verify(pub.pub, <<record.iv, record.ct>>, record.sig)
        THEN [err |-> "signature verification failed", pt |-> <<>>]
        ELSE LET d == AESGCMDecrypt(DeriveFileKey(sec.secret, path, record.epoch),
                                    record.iv, record.ct)
             IN  IF d.err THEN [err |-> "decrypt", pt |-> <<>>]
                 ELSE [err |-> "none", pt |-> d.pt]

\* The delta loop of DecryptChain from block i on.
RECURSIVE ApplyDeltas(_, _, _, _)
ApplyDeltas(blocks, i, plain, filePath) ==
    IF i > Len(blocks) THEN [err |-> "none", text |-> plain]
    ELSE IF ~ParsesAsRecord(blocks[i]) THEN [err |-> "parse delta", text |-> <<>>]
    ELSE IF blocks[i].prev_hash # hashPrefix(SubSeq(blocks, 1, i - 1))
    THEN [err |-> "hash chain broken", text |-> <<>>]
    ELSE LET o == OpenRecord(blocks[i], filePath)
         IN  IF o.err # "none" THEN [err |-> o.err, text |-> <<>>]
             ELSE LET a == ApplyDelta(plain, o.pt)
                  IN  IF a.err THEN [err |-> "apply delta", text |-> <<>>]
                      ELSE ApplyDeltas(blocks, i + 1, a.text, filePath)

\* DecryptChain: returns [err, text].
DecryptChain(ciphertext, filePath) ==
    IF ~ParsesAsRecord(ciphertext[1]) THEN [err |-> "parse base block", text |-> <<>>]
    ELSE LET o == OpenRecord(ciphertext[1], filePath)
         IN  IF o.err # "none" THEN [err |-> o.err, text |-> <<>>]
             ELSE ApplyDeltas(ciphertext, 2, o.pt, filePath)

\* The file filter's writer: the first version is a base block, every later
\* version a delta against the previous plaintext, under the writer's
\* current epoch (which never decreases); an unchanged plaintext is served
\* from the cache and not encrypted again.  A run follows the chain up to one
\* read of it: a write after a read leads where the write alone leads.
DoEncryptBaseBlock(plaintext, epoch) ==
    /\ chain = <<>>
    /\ chain' = EncryptBaseBlock(plaintext, EpochSecretAt(epoch), FilePath, epoch,
                                 Author, SigningKeyOf(Author))
    /\ text' = plaintext
    /\ readBack' = NoRead
    /\ UNCHANGED <<groupVars, committedFile, filterVars, repoVars>>

DoEncryptDelta(newText, epoch) ==
    /\ chain # <<>>
    /\ readBack = NoRead
    /\ CountDeltas(chain) < MaxDeltas
    /\ newText # text
    /\ epoch >= chain[Len(chain)].epoch
    /\ chain' = EncryptDelta(ComputeDelta(text, newText), EpochSecretAt(epoch), FilePath,
                             epoch, CountDeltas(chain) + 1, Author, SigningKeyOf(Author),
                             chain)
    /\ text' = newText
    /\ readBack' = NoRead
    /\ UNCHANGED <<groupVars, committedFile, filterVars, repoVars>>

\* A reader decrypts the chain as stored.
DoDecryptChain ==
    /\ chain # <<>>
    /\ readBack = NoRead
    /\ readBack' = [rec |-> 0, field |-> "untampered", stored |-> chain, passed |-> FALSE,
                    res |-> DecryptChain(chain, FilePath)]
    /\ UNCHANGED <<groupVars, committedFile, filterVars, repoVars, chain, text>>

\* The fields of a DeltaRecord, and the values one field of the i-th record
\* of a chain can be changed to.
RecordFields == {"epoch", "seq", "iv", "ct", "sig", "author", "prev_hash", "file_path"}

TamperValues(ciphertext, i, field) ==
    LET record == ciphertext[i]
    IN  CASE field = "epoch" -> (0..(MaxFileEpoch + 1)) \ {record.epoch}
          [] field = "seq" -> {record.seq + 1}
          [] field = "iv" -> {NonceAt(record.iv.nonce + 1)}
          [] field = "ct" -> {[record.ct EXCEPT !.tag = "bad"]}
          [] field = "sig" -> {[record.sig EXCEPT !.signer = "mallory"]}
          [] field = "author" -> (Authors \cup {"mallory"}) \ {record.author}
          [] field = "prev_hash" ->
                {EmptyHash, hashPrefix(SubSeq(ciphertext, 1, i))} \ {record.prev_hash}
          [] field = "file_path" -> {"", "g.txt"}

\* A reader decrypts the chain after one field of one record was changed in
\* storage.
DoDecryptTampered(i, field, value) ==
    /\ i \in 1..Len(chain)
    /\ readBack = NoRead
    /\ value \in TamperValues(chain, i, field)
    /\ LET stored == [chain EXCEPT ![i][field] = value]
       IN  readBack' = [rec |-> i, field |-> field, stored |-> stored, passed |-> FALSE,
                        res |-> DecryptChain(stored, FilePath)]
    /\ UNCHANGED <<groupVars, committedFile, filterVars, repoVars, chain, text>>

\* What a party that controls storage can do with the records of a chain
\* without any key: drop a record from the middle, exchange two neighbouring
\* deltas, or repeat a delta.  The signature of a record covers iv and ct
\* only and the hash is unkeyed, so the party rewrites every prev_hash to the
\* hash of the blocks now in front of the record.
RearrangeKinds == {"drop", "swap", "dup"}

Rearranged(ciphertext, kind, i) ==
    LET n == Len(ciphertext)
    IN  CASE kind = "drop" -> SubSeq(ciphertext, 1, i - 1) \o SubSeq(ciphertext, i + 1, n)
          [] kind = "swap" -> SubSeq(ciphertext, 1, i - 1)
                                \o <<ciphertext[i + 1], ciphertext[i]>>
                                \o SubSeq(ciphertext, i + 2, n)
          [] kind = "dup" -> SubSeq(ciphertext, 1, i) \o SubSeq(ciphertext, i, n)

RearrangeAt(ciphertext, kind) ==
    LET n == Len(ciphertext)
    IN  CASE kind = "drop" -> 2..(n - 1)
          [] kind = "swap" -> 2..(n - 1)
          [] kind = "dup" -> 2..n

RECURSIVE Relink(_, _)
Relink(blocks, i) ==
    IF i > Len(blocks) THEN blocks
    ELSE Relink([blocks EXCEPT ![i].prev_hash = hashPrefix(SubSeq(blocks, 1, i - 1))],
                i + 1)

\* A reader decrypts the chain after its records were rearranged and relinked
\* in storage.
DoDecryptRearranged(kind, i) ==
    /\ readBack = NoRead
    /\ chain # <<>>
    /\ i \in RearrangeAt(chain, kind)
    /\ LET stored == Relink(Rearranged(chain, kind, i), 2)
       IN  readBack' = [rec |-> i, field |-> kind, stored |-> stored, passed |-> FALSE,
                        res |-> DecryptChain(stored, FilePath)]
    /\ UNCHANGED <<groupVars, committedFile, filterVars, repoVars, chain, text>>

InitChain ==
    /\ grp = [p \in Peers |-> NoGroup]
    /\ joined = {}
    /\ welcomes = {}
    /\ commits = {}
    /\ forked = FALSE
    /\ committedFile = NoFile
    /\ chain = <<>>
    /\ text = <<>>
    /\ readBack = NoRead
    /\ cache = [p \in Peers |-> NoEntry]
    /\ fEpoch = 0
    /\ threshold = MaxThreshold
    /\ archiveFile = NoFile
    /\ epochMarker = 0
    /\ NoSeal
    /\ NoMembers

NextChain ==
    \/ \E plaintext \in Texts, epoch \in ArchiveEpochs : DoEncryptBaseBlock(plaintext, epoch)
    \/ \E newText \in Texts, epoch \in ArchiveEpochs : DoEncryptDelta(newText, epoch)
    \/ DoDecryptChain
    \/ \E i \in 1..Len(chain), field \in RecordFields :
          \E value \in TamperValues(chain, i, field) : DoDecryptTampered(i, field, value)
    \/ \E kind \in RearrangeKinds : \E i \in 1..(MaxDeltas + 1) : DoDecryptRearranged(kind, i)

SpecChain == InitChain /\ [][NextChain]_vars

\* The writer and an honest reader alone: the chain reaches the reader as it
\* was stored.
NextWriteRead ==
    \/ \E plaintext \in Texts, epoch \in ArchiveEpochs : DoEncryptBaseBlock(plaintext, epoch)
    \/ \E newText \in Texts, epoch \in ArchiveEpochs : DoEncryptDelta(newText, epoch)
    \/ DoDecryptChain

SpecWriteRead == InitChain /\ [][NextWriteRead]_vars

\* -------------------------------------------------------------------- filter
\* The peer whose filter runs, and the thresholds its configuration can hold:
\* ConfigFromTOML keeps the default when the file says 0 and takes any other
\* integer as it is.
FilterPeer == 1

\* The plaintexts staged through the filter: runs of one letter.
StagedTexts == {t \in Texts : \A i \in 1..Len(t) : t[i] = "a"}
Thresholds == (-1..MaxThreshold) \ {0}

\* FilterCache.Put: both files of the entry are written.
Put(plaintext, ciphertext) ==
    [hasPlain |-> TRUE, plain |-> plaintext, hasCT |-> TRUE, ct |-> ciphertext]

\* LooksCritCiphertext: the first block decodes to a JSON object with the
\* keys epoch, ct and iv.
LooksCritCiphertext(data) ==
    /\ data # <<>>
    /\ {"epoch", "ct", "iv"} \subseteq DOMAIN data[1]

\* Variant: no cache lookup before encrypting.
CleanNoCacheHit(stdinData, entry, epoch, epochSecret, compactionThreshold, memberID, signingKey) ==
    LET ct == IF ~entry.hasPlain \/ ~entry.hasCT
              THEN EncryptBaseBlock(stdinData, epochSecret, FilePath, epoch, memberID, signingKey)
              ELSE LET deltaText == ComputeDelta(entry.plain, stdinData)
                       nDeltas == CountDeltas(entry.ct)
                   IN  IF nDeltas >= compactionThreshold
                       THEN EncryptBaseBlock(stdinData, epochSecret, FilePath, epoch,
                                             memberID, signingKey)
                       ELSE EncryptDelta(deltaText, epochSecret, FilePath, epoch,
                                         nDeltas + 1, memberID, signingKey, entry.ct)
    IN  [out |-> ct, cache |-> Put(stdinData, ct)]

\* Clean for a joined peer: returns [out, cache], the bytes written to stdout
\* and the cache entry of the path after the call.
Clean(stdinData, entry, epoch, epochSecret, compactionThreshold, memberID, signingKey) ==
    IF entry.hasPlain /\ entry.plain = stdinData /\ entry.hasCT
    THEN [out |-> entry.ct, cache |-> entry]
    ELSE LET ct == IF ~entry.hasPlain \/ ~entry.hasCT
                   THEN EncryptBaseBlock(stdinData, epochSecret, FilePath, epoch,
                                         memberID, signingKey)
                   ELSE LET deltaText == ComputeDelta(entry.plain, stdinData)
                            nDeltas == CountDeltas(entry.ct)
                        IN  IF nDeltas >= compactionThreshold
                            THEN EncryptBaseBlock(stdinData, epochSecret, FilePath, epoch,
                                                  memberID, signingKey)
                            ELSE EncryptDelta(deltaText, epochSecret, FilePath, epoch,
                                              nDeltas + 1, memberID, signingKey, entry.ct)
         IN  [out |-> ct, cache |-> Put(stdinData, ct)]

\* Variant: only the base block is decrypted.
SmudgeBaseOnly(stdinData, entry, filePath) ==
    IF ~LooksCritCiphertext(stdinData)
    THEN [err |-> "none", passed |-> TRUE, text |-> <<>>, cache |-> entry]
    ELSE LET d == DecryptChain(<<stdinData[1]>>, filePath)
         IN  IF d.err # "none"
             THEN [err |-> d.err, passed |-> FALSE, text |-> <<>>, cache |-> entry]
             ELSE [err |-> "none", passed |-> FALSE, text |-> d.text,
                   cache |-> Put(d.text, stdinData)]

\* Smudge for a joined peer: returns [err, passed, text, cache].  passed: the
\* call returned its input bytes unchanged, with no error; otherwise text is
\* the plaintext written to stdout when err is "none".
Smudge(stdinData, entry, filePath) ==
    IF ~LooksCritCiphertext(stdinData)
    THEN [err |-> "none", passed |-> TRUE, text |-> <<>>, cache |-> entry]
    ELSE LET d == DecryptChain(stdinData, filePath)
         IN  IF d.err # "none"
             THEN [err |-> d.err, passed |-> FALSE, text |-> <<>>, cache |-> entry]
             ELSE [err |-> "none", passed |-> FALSE, text |-> d.text,
                   cache |-> Put(d.text, stdinData)]

\* The plaintext is staged: chain is what Clean emitted, text what was staged.
DoClean(plaintext) ==
    /\ LET r == Clean(plaintext, cache[FilterPeer], fEpoch, EpochSecretAt(fEpoch),
                      threshold, Author, SigningKeyOf(Author))
       IN  /\ chain' = r.out
           /\ cache' = [cache EXCEPT ![FilterPeer] = r.cache]
    /\ text' = plaintext
    /\ readBack' = NoRead
    /\ UNCHANGED <<groupVars, committedFile, fEpoch, threshold, repoVars>>

\* One Smudge call on the stored bytes.
SmudgeStep(rec, field, stored) ==
    LET r == Smudge(stored, cache[FilterPeer], FilePath)
    IN  /\ readBack' = [rec |-> rec, field |-> field, stored |-> stored,
                        passed |-> r.passed, res |-> [err |-> r.err, text |-> r.text]]
        /\ cache' = [cache EXCEPT ![FilterPeer] = r.cache]
        /\ UNCHANGED <<groupVars, committedFile, chain, text, fEpoch, threshold, repoVars>>

\* A version of the file is checked out: the emitted chain, or an earlier
\* version of it (its first k blocks).
DoSmudge(k) ==
    /\ k \in 1..Len(chain)
    /\ SmudgeStep(k, "stored", SubSeq(chain, 1, k))

\* What the emitted chain can read as after one byte of its i-th block was
\* altered in storage: the block no longer decodes, or decodes to a record
\* with one field changed.
Altered(ciphertext) ==
    {[ciphertext EXCEPT ![i] = [garbage |-> TRUE]] : i \in 1..Len(ciphertext)}
    \cup UNION {UNION {{[ciphertext EXCEPT ![i][field] = value] :
                           value \in TamperValues(ciphertext, i, field)} :
                       field \in RecordFields} :
                i \in 1..Len(ciphertext)}

\* The configuration file is edited.
DoSetThreshold(t) ==
    /\ t # threshold
    /\ threshold' = t
    /\ UNCHANGED <<groupVars, committedFile, chainVars, cache, fEpoch, repoVars>>

\* LoadState finds a later committed epoch and syncs the local group to it.
DoAdvanceEpoch ==
    /\ fEpoch < MaxFileEpoch
    /\ fEpoch' = fEpoch + 1
    /\ UNCHANGED <<groupVars, committedFile, chainVars, cache, threshold, repoVars>>

InitFilter ==
    /\ grp = [p \in Peers |-> NoGroup]
    /\ joined = {}
    /\ welcomes = {}
    /\ commits = {}
    /\ forked = FALSE
    /\ committedFile = NoFile
    /\ chain = <<>>
    /\ text = <<>>
    /\ readBack = NoRead
    /\ cache = [p \in Peers |-> NoEntry]
    /\ fEpoch = 0
    /\ threshold \in Thresholds
    /\ archiveFile = NoFile
    /\ epochMarker = 0
    /\ NoSeal
    /\ NoMembers

NextFilter ==
    \/ \E plaintext \in StagedTexts : DoClean(plaintext)
    \/ \E k \in 1..(MaxThreshold + 1) : DoSmudge(k)
    \/ \E t \in Thresholds : DoSetThreshold(t)
    \/ DoAdvanceEpoch

SpecFilter == InitFilter /\ [][NextFilter]_vars

\* FilterCache.Put stopped between its two writes: the plaintext file is the
\* new one, the ciphertext file is the one that was there, if any.
PutPlainOnly(entry, plaintext) ==
    [entry EXCEPT !.hasPlain = TRUE, !.plain = plaintext]

\* Clean is terminated between the two writes of its Put: nothing is emitted.
DoCleanInterrupted(plaintext) ==
    /\ ~(cache[FilterPeer].hasPlain /\ cache[FilterPeer].plain = plaintext
         /\ cache[FilterPeer].hasCT)
    /\ cache' = [cache EXCEPT ![FilterPeer] = PutPlainOnly(@, plaintext)]
    /\ UNCHANGED <<groupVars, committedFile, chainVars, fEpoch, threshold, repoVars>>

\* Smudge of the first k blocks of the stored chain is terminated between the
\* two writes of its Put.
DoSmudgeInterrupted(k) ==
    /\ k \in 1..Len(chain)
    /\ \E r \in {Smudge(SubSeq(chain, 1, k), cache[FilterPeer], FilePath)} :
           /\ r.err = "none" /\ ~r.passed
           /\ cache' = [cache EXCEPT ![FilterPeer] = PutPlainOnly(@, r.text)]
    /\ UNCHANGED <<groupVars, committedFile, chainVars, fEpoch, threshold, repoVars>>

\* The filter, where an invocation may be terminated inside Put.
NextFilterCrash ==
    \/ NextFilter
    \/ \E plaintext \in StagedTexts : DoCleanInterrupted(plaintext)
    \/ \E k \in 1..(MaxThreshold + 1) : DoSmudgeInterrupted(k)

SpecFilterCrash == InitFilter /\ [][NextFilterCrash]_vars

\* ------------------------------------------------------------------ commands
MaxCommands == 2

\* loadMLSGitGroup: the local state, synced from the committed blob when one
\* is there; the local state file is rewritten when the sync reports a change.
\* Returns [g, saved]: the group in memory and the local state file.
loadMLSGitGroup(p) ==
    IF committedFile = NoFile THEN [g |-> grp[p], saved |-> grp[p]]
    ELSE LET r == SyncFromCommitted(grp[p], InitPrivOf(p), committedFile)
         IN  [g |-> r.g, saved |-> IF r.ret THEN r.g ELSE grp[p]]

\* EpochKeyArchive: a map from epoch numbers to exported epoch secrets.
NewWithSecret(epoch, secret) == [e \in {epoch} |-> secret]

Add(archive, epoch, secret) ==
    [e \in DOMAIN archive \cup {epoch} |-> IF e = epoch THEN secret ELSE archive[e]]

Has(archive, epoch) == epoch \in DOMAIN archive

deriveArchiveKey(epochSecret) == DeriveFileKey(epochSecret, "mlsgit-archive", 0)

\* EpochKeyArchive.Encrypt and DecryptArchive; the latter returns [err, archive].
Encrypt(archive, currentEpochSecret) ==
    AESGCMEncrypt(deriveArchiveKey(currentEpochSecret), archive)

DecryptArchive(data, epochSecret) ==
    IF AESGCMDecryptOK(deriveArchiveKey(epochSecret), data)
    THEN [err |-> FALSE, archive |-> data.pt]
    ELSE [err |-> TRUE, archive |-> <<>>]

\* loadEpochArchive: returns [err, archive].
loadEpochArchive(g) ==
    IF archiveFile = NoFile
    THEN [err |-> FALSE, archive |-> NewWithSecret(g.epoch, ExportEpochSecret(g))]
    ELSE LET d == DecryptArchive(archiveFile, ExportEpochSecret(g))
         IN  IF d.err THEN d
             ELSE IF Has(d.archive, g.epoch) THEN d
             ELSE [err |-> FALSE, archive |-> Add(d.archive, g.epoch, ExportEpochSecret(g))]

\* What a command or the filter holds after loading: the group in memory, the
\* local state file as the load left it, and the archive.
LoadState(p) ==
    LET l == loadMLSGitGroup(p)
        a == loadEpochArchive(l.g)
    IN  [err |-> a.err, g |-> l.g, saved |-> l.saved, archive |-> a.archive]

\* Inputs a smudge can be handed that are no ciphertext chain: nothing, a
\* first block that does not decode, and a first block that decodes to an
\* object without the key "iv".
NonCiphertexts == {<<>>, <<[garbage |-> TRUE]>>, <<[epoch |-> 0, ct |-> 0]>>}

\* Variant: the input is put in the cache before the state is looked for.
SmudgeAsCachingFirst(p, stdinData) ==
    IF p \notin joined
    THEN [err |-> FALSE, passed |-> TRUE, cache |-> Put(stdinData, stdinData)]
    ELSE LET st == LoadState(p)
         IN  IF st.err THEN [err |-> TRUE, passed |-> FALSE, cache |-> cache[p]]
             ELSE LET r == Smudge(stdinData, Put(stdinData, stdinData), FilePath)
                  IN  [err |-> r.err # "none", passed |-> r.passed, cache |-> r.cache]

\* filter.Smudge as git runs it in the working tree of peer p, from the load
\* of the state on.  Returns [err, passed, cache]: whether an error was
\* returned, whether the input bytes were returned as they came, and the cache
\* entry of the path after the call.  No local state file: the input is
\* returned before the cache is opened.
SmudgeAs(p, stdinData) ==
    IF p \notin joined
    THEN [err |-> FALSE, passed |-> TRUE, cache |-> cache[p]]
    ELSE LET st == LoadState(p)
         IN  IF st.err THEN [err |-> TRUE, passed |-> FALSE, cache |-> cache[p]]
             ELSE LET r == Smudge(stdinData, cache[p], FilePath)
                  IN  [err |-> r.err # "none", passed |-> r.passed, cache |-> r.cache]

\* filter.Clean as git runs it in the working tree of peer p, from the load of
\* the state on.  Returns [err, passed, cache] as SmudgeAs does.
CleanAs(p, stdinData) ==
    IF p \notin joined
    THEN [err |-> FALSE, passed |-> TRUE, cache |-> cache[p]]
    ELSE LET st == LoadState(p)
         IN  IF st.err THEN [err |-> TRUE, passed |-> FALSE, cache |-> cache[p]]
             ELSE [err |-> FALSE, passed |-> FALSE,
                   cache |-> Clean(stdinData, cache[p], st.g.epoch, st.archive[st.g.epoch],
                                   threshold, Author, SigningKeyOf(Author)).cache]

\* Variant: the archive written holds the new epoch only.
saveGroupAndArchiveFresh(g, archive) ==
    LET newEpochSecret == ExportEpochSecret(g)
    IN  [archive |-> Encrypt(NewWithSecret(g.epoch, newEpochSecret), newEpochSecret),
         marker |-> g.epoch,
         committed |-> ToCommittedBytes(g),
         local |-> g]

\* saveGroupAndArchive: the four blobs it writes, in the order it writes them:
\* archive, epoch marker, committed group state, local group state.
saveGroupAndArchive(g, archive) ==
    LET newEpochSecret == ExportEpochSecret(g)
    IN  [archive |-> Encrypt(Add(archive, g.epoch, newEpochSecret), newEpochSecret),
         marker |-> g.epoch,
         committed |-> ToCommittedBytes(g),
         local |-> g]

\* The first n writes of saveGroupAndArchive by peer p reach the disk; the
\* local state file is the one the load left when the fourth does not.
Persist(p, s, n, saved) ==
    /\ archiveFile' = IF n >= 1 THEN s.archive ELSE archiveFile
    /\ epochMarker' = IF n >= 2 THEN s.marker ELSE epochMarker
    /\ UNCHANGED <<sealVars, memberIDs>>
    /\ committedFile' = IF n >= 3 THEN s.committed ELSE committedFile
    /\ commits' = IF n >= 3
                  THEN commits \cup {[bytes |-> s.committed,
                                      secret |-> ExportEpochSecret(s.local)]}
                  ELSE commits
    /\ grp' = [grp EXCEPT ![p] = IF n >= 4 THEN s.local ELSE saved]

\* mlsgit init
runInit(p) ==
    /\ committedFile = NoFile
    /\ joined = {}
    /\ grp' = [grp EXCEPT ![p] = Create(p)]
    /\ epochMarker' = Create(p).epoch
    /\ memberFiles' = {p}
    /\ UNCHANGED <<sealVars, memberIDs>>
    /\ committedFile' = ToBytes(Create(p))
    /\ archiveFile' = Encrypt(NewWithSecret(Create(p).epoch, ExportEpochSecret(Create(p))),
                              ExportEpochSecret(Create(p)))
    /\ commits' = {[bytes |-> ToBytes(Create(p)), secret |-> ExportEpochSecret(Create(p))]}
    /\ joined' = {p}
    /\ UNCHANGED <<welcomes, forked, chainVars, filterVars>>

\* mlsgit add, stopped after n of the writes of saveGroupAndArchive (n = 4:
\* the command completes, and then empties the filter cache).  The Welcome
\* file reaches the new member only from a completed add.
runAddUpTo(p, q, n) ==
    /\ p \in joined
    /\ \E st \in {LoadState(p)} : \E r \in {AddMember(st.g, p, BuildKeyPackage(q))} :
           /\ st.g.epoch < MaxCommands
           /\ ~HasMember(st.g, InitPubOf(q))
           /\ IF st.err
              THEN /\ grp' = [grp EXCEPT ![p] = st.saved]
                   /\ UNCHANGED <<welcomes, commits, committedFile, repoVars, cache>>
              ELSE /\ welcomes' = IF n >= 4 THEN welcomes \cup {r.welcome} ELSE welcomes
                   /\ memberFiles' = memberFiles \cup {q}
                   /\ Persist(p, saveGroupAndArchive(r.g, st.archive), n, st.saved)
                   /\ cache' = IF n >= 4 THEN [cache EXCEPT ![p] = NoEntry] ELSE cache
    /\ UNCHANGED <<joined, forked, chainVars, fEpoch, threshold>>

runAdd(p, q) == runAddUpTo(p, q, 4)

\* ListMemberIDs: the ids of the member files, sorted.
ListMemberIDs ==
    LET ids == {memberIDs[q] : q \in memberFiles}
    IN  CHOOSE s \in [1..Cardinality(ids) -> ids] :
            \A i, j \in 1..Cardinality(ids) : i < j => s[i] < s[j]

\* runRemove's leaf index: the position of the member id in ListMemberIDs,
\* or -1 when it is not listed.
leafIndexOf(member) ==
    LET ids == ListMemberIDs
    IN  IF \E i \in 1..Len(ids) : ids[i] = memberIDs[member]
        THEN (CHOOSE i \in 1..Len(ids) : ids[i] = memberIDs[member]) - 1
        ELSE -1

\* mlsgit remove, stopped after n of the writes of saveGroupAndArchive (n = 4:
\* the command completes).
runRemoveUpTo(p, member, n) ==
    /\ p \in joined
    /\ member \in memberFiles
    /\ \E st \in {LoadState(p)} :
       \E r \in {RemoveMember(st.g, p, leafIndexOf(member))} :
           /\ st.g.epoch < MaxCommands
           /\ IF st.err \/ member = p \/ r.err
              THEN /\ grp' = [grp EXCEPT ![p] = st.saved]
                   /\ UNCHANGED <<commits, committedFile, repoVars>>
              ELSE /\ memberFiles' = memberFiles \ {member}
                   /\ Persist(p, saveGroupAndArchive(r.g, st.archive), n, st.saved)
    /\ UNCHANGED <<joined, welcomes, forked, chainVars, filterVars>>

runRemove(p, member) == runRemoveUpTo(p, member, 4)

\* mlsgit join, second phase: the Welcome is processed and the local state saved.
runJoin(q, w) ==
    /\ q \notin joined
    /\ w \in welcomes
    /\ DecryptWelcomeOK(InitPrivOf(q), w)
    /\ grp' = [grp EXCEPT ![q] = JoinFromWelcome(w.box.pt)]
    /\ joined' = joined \cup {q}
    /\ UNCHANGED <<welcomes, commits, forked, committedFile, chainVars, filterVars, repoVars>>

\* The clean filter of peer FilterPeer stages the tracked file for the first
\* time since its cache was emptied (SpecFilter follows repeated staging).
filterClean(plaintext) ==
    /\ FilterPeer \in joined
    /\ cache[FilterPeer] = NoEntry
    /\ \E st \in {LoadState(FilterPeer)} :
           /\ grp' = [grp EXCEPT ![FilterPeer] = st.saved]
           /\ cache' = IF st.err THEN cache
                       ELSE [cache EXCEPT ![FilterPeer] =
                               Clean(plaintext, cache[FilterPeer], st.g.epoch,
                                     st.archive[st.g.epoch], threshold, Author,
                                     SigningKeyOf(Author)).cache]
    /\ UNCHANGED <<joined, welcomes, commits, forked, committedFile, chainVars,
                   fEpoch, threshold, repoVars>>

InitCLI ==
    /\ grp = [p \in Peers |-> NoGroup]
    /\ joined = {}
    /\ welcomes = {}
    /\ commits = {}
    /\ forked = FALSE
    /\ committedFile = NoFile
    /\ chain = <<>>
    /\ text = <<>>
    /\ readBack = NoRead
    /\ cache = [p \in Peers |-> NoEntry]
    /\ fEpoch = 0
    /\ threshold = MaxThreshold
    /\ archiveFile = NoFile
    /\ epochMarker = 0
    /\ NoSeal
    /\ memberFiles = {}
    /\ memberIDs \in MemberIDAssignments

NextCLI ==
    \/ \E p \in Peers : runInit(p)
    \/ \E p \in Peers, q \in Peers : runAdd(p, q)
    \/ \E p \in Peers, member \in Peers : runRemove(p, member)
    \/ \E q \in Peers, w \in welcomes : runJoin(q, w)
    \/ \E plaintext \in StagedTexts : filterClean(plaintext)

SpecCLI == InitCLI /\ [][NextCLI]_vars

\* Smudge's getEpochSecret: EpochKeyArchive.Get on the archive that was loaded.
ArchiveGet(archive, epoch) ==
    IF Has(archive, epoch) THEN [err |-> FALSE, secret |-> archive[epoch]]
    ELSE [err |-> TRUE, secret |-> <<>>]

\* getPublicKeyForAuthor: the public key in the member file of the author.
getPublicKeyForAuthor(author) ==
    IF author \in memberFiles THEN [err |-> FALSE, pub |-> PublicKeyOf(author)]
    ELSE [err |-> TRUE, pub |-> <<>>]

\* The checks of DecryptChain on one record, with the two lookups Smudge
\* hands it.
OpenRecordIn(record, filePath, archive) ==
    LET path == IF record.file_path = "" THEN filePath ELSE record.file_path
        sec == ArchiveGet(archive, record.epoch)
        pub == getPublicKeyForAuthor(record.author)
    IN  IF sec.err THEN [err |-> "get epoch secret", pt |-> <<>>]
        ELSE IF pub.err THEN [err |-> "get public key", pt |-> <<>>]
        ELSE IF ~Verify(pub.pub, <<record.iv, record.ct>>, record.sig)
        THEN [err |-> "signature verification failed", pt |-> <<>>]
        ELSE LET d == AESGCMDecrypt(DeriveFileKey(sec.secret, path, record.epoch),
                                    record.iv, record.ct)
             IN  IF d.err THEN [err |-> "decrypt", pt |-> <<>>]
                 ELSE [err |-> "none", pt |-> d.pt]

RECURSIVE ApplyDeltasIn(_, _, _, _, _)
ApplyDeltasIn(blocks, i, plain, filePath, archive) ==
    IF i > Len(blocks) THEN [err |-> "none", text |-> plain]
    ELSE IF ~ParsesAsRecord(blocks[i]) THEN [err |-> "parse delta", text |-> <<>>]
    ELSE IF blocks[i].prev_hash # hashPrefix(SubSeq(blocks, 1, i - 1))
    THEN [err |-> "hash chain broken", text |-> <<>>]
    ELSE LET o == OpenRecordIn(blocks[i], filePath, archive)
         IN  IF o.err # "none" THEN [err |-> o.err, text |-> <<>>]
             ELSE LET a == ApplyDelta(plain, o.pt)
                  IN  IF a.err THEN [err |-> "apply delta", text |-> <<>>]
                      ELSE ApplyDeltasIn(blocks, i + 1, a.text, filePath, archive)

\* DecryptChain as Smudge calls it in a working tree: returns [err, text].
DecryptChainIn(ciphertext, filePath, archive) ==
    IF ~ParsesAsRecord(ciphertext[1]) THEN [err |-> "parse base block", text |-> <<>>]
    ELSE LET o == OpenRecordIn(ciphertext[1], filePath, archive)
         IN  IF o.err # "none" THEN [err |-> o.err, text |-> <<>>]
             ELSE ApplyDeltasIn(ciphertext, 2, o.pt, filePath, archive)

\* A second tracked path.
OtherPath == "g.txt"

\* filter.Smudge for the path filePath on a stored chain in the working tree
\* of a joined peer p: returns [err, text], err "none" when a plaintext is
\* returned.
SmudgeIn(p, filePath, stdinData) ==
    LET st == LoadState(p)
    IN  IF st.err THEN [err |-> "load state", text |-> <<>>]
        ELSE DecryptChainIn(stdinData, filePath, st.archive)

\* git add of the tracked file by peer p: what Clean emits under p's member id
\* becomes the stored blob.  A run follows the first version of the file.
gitAddFile(p, plaintext) ==
    /\ p \in joined
    /\ chain = <<>>
    /\ \E st \in {LoadState(p)} :
           /\ ~st.err
           /\ grp' = [grp EXCEPT ![p] = st.saved]
           /\ \E r \in {Clean(plaintext, cache[p], st.g.epoch, st.archive[st.g.epoch],
                              threshold, p, SigningKeyOf(p))} :
                  /\ chain' = r.out
                  /\ cache' = [cache EXCEPT ![p] = r.cache]
    /\ text' = plaintext
    /\ UNCHANGED <<joined, welcomes, commits, forked, committedFile, readBack,
                   fEpoch, threshold, repoVars>>

\* The commands on a repository with one tracked file.
NextTree ==
    \/ \E p \in Peers : runInit(p)
    \/ \E p \in Peers, q \in Peers : runAdd(p, q)
    \/ \E p \in Peers, member \in Peers : runRemove(p, member)
    \/ \E q \in Peers, w \in welcomes : runJoin(q, w)
    \/ \E p \in Peers, plaintext \in StagedTexts : gitAddFile(p, plaintext)

SpecTree == InitCLI /\ [][NextTree]_vars

\* No save was interrupted so far between the archive and the committed
\* group state: the archive opens under the secret of the committed epoch.
Intact ==
    \E c \in commits :
        /\ c.bytes = committedFile
        /\ AESGCMDecryptOK(deriveArchiveKey(c.secret), archiveFile)

\* The same commands, where an add or a remove may stop between two writes; a
\* run is followed up to the first save that stops with the archive written
\* and the committed group state not.
NextCrash ==
    \/ NextCLI
    \/ \E p \in Peers, q \in Peers, n \in 0..3 : Intact /\ runAddUpTo(p, q, n)
    \/ \E p \in Peers, member \in Peers, n \in 0..3 :
          Intact /\ runRemoveUpTo(p, member, n)

SpecCrash == InitCLI /\ [][NextCrash]_vars

\* ------------------------------------------------------- seal and verify
\* ComputeFileHash: SHA-256(path || SHA-256(ciphertext)).
ComputeFileHash(filePath, ciphertext) ==
    [sha256 |-> [path |-> filePath, ctHash |-> [sha256 |-> ciphertext]]]

\* collectFileHashes: git ls-files lists the tracked paths in ascending order;
\* one FileHash for each from the blob staged for it.
RECURSIVE collectFrom(_)
collectFrom(path) ==
    IF path > MaxFiles THEN <<>>
    ELSE (IF staged[path] = 0 THEN <<>>
          ELSE <<[Path |-> path, Hash |-> ComputeFileHash(path, staged[path])]>>)
         \o collectFrom(path + 1)

collectFileHashes == collectFrom(1)

\* sort.Slice(fileHashes, Path <) on a short slice: an insertion sort, where
\* an entry moves left past the entries of strictly greater path.
RECURSIVE insertionSort(_)
insertionSort(fileHashes) ==
    IF fileHashes = <<>> THEN <<>>
    ELSE LET front == insertionSort(SubSeq(fileHashes, 1, Len(fileHashes) - 1))
             fh == fileHashes[Len(fileHashes)]
             k == Cardinality({i \in 1..Len(front) : ~(fh.Path < front[i].Path)})
         IN  SubSeq(front, 1, k) \o <<fh>> \o SubSeq(front, k + 1, Len(front))

\* One level of the tree: nodes are hashed in pairs, an odd last node with
\* itself.
RECURSIVE nextLevel(_)
nextLevel(nodes) ==
    IF nodes = <<>> THEN <<>>
    ELSE LET left == nodes[1]
             right == IF Len(nodes) > 1 THEN nodes[2] ELSE left
         IN  <<[sha256 |-> [left |-> left, right |-> right]]>>
             \o nextLevel(SubSeq(nodes, 3, Len(nodes)))

RECURSIVE rootOf(_)
rootOf(nodes) == IF Len(nodes) > 1 THEN rootOf(nextLevel(nodes)) ELSE nodes[1]

\* The root of the empty tree: the empty string.
EmptyRoot == [empty |-> TRUE]

\* Variant: the entries are hashed in the order they were given.
ComputeMerkleRootUnsorted(fileHashes) ==
    IF Len(fileHashes) = 0 THEN EmptyRoot
    ELSE rootOf([i \in 1..Len(fileHashes) |-> fileHashes[i].Hash])

\* ComputeMerkleRoot: the hex-encoded root of the entries sorted by path.
ComputeMerkleRoot(fileHashes) ==
    IF Len(fileHashes) = 0 THEN EmptyRoot
    ELSE LET sorted == insertionSort(fileHashes)
         IN  rootOf([i \in 1..Len(sorted) |-> sorted[i].Hash])

SignMerkleRoot(rootHash, privateKey) == Sign(privateKey, rootHash)

VerifyMerkleRoot(rootHash, signature, publicKey) == Verify(publicKey, rootHash, signature)

\* git add / git rm on a tracked path: the index holds another blob for it.
\* A run is followed up to an edit of the manifest, which comes after the
\* changes of the index.
gitAdd(path, blob) ==
    /\ staged[path] # blob
    /\ IF manifest = NoFile THEN TRUE ELSE manifest = lastSeal.manifest
    /\ staged' = [staged EXCEPT ![path] = blob]
    /\ verified' = NoVerdict
    /\ UNCHANGED <<groupVars, committedFile, chainVars, filterVars, archiveFile,
                   memberVars,
                   epochMarker, manifest, lastSeal>>

\* mlsgit seal by peer p: the manifest is written unless the peer has no local
\* state or no file is tracked.
runSeal(p) ==
    /\ p \in joined
    /\ \E l \in {loadMLSGitGroup(p)} : \E fileHashes \in {collectFileHashes} :
       \E rootHash \in {ComputeMerkleRoot(fileHashes)} :
           /\ rootHash # EmptyRoot
           /\ grp' = [grp EXCEPT ![p] = l.saved]
           /\ manifest' = [root_hash |-> rootHash,
                           signature |-> SignMerkleRoot(rootHash, SigningKeyOf(p)),
                           author |-> p,
                           epoch |-> l.g.epoch,
                           file_count |-> Len(fileHashes)]
           /\ lastSeal' = [staged |-> staged, manifest |-> manifest']
    /\ verified' = NoVerdict
    /\ UNCHANGED <<joined, welcomes, commits, forked, committedFile, chainVars,
                   filterVars, archiveFile, epochMarker, staged, memberVars>>

\* The members directory holds a TOML file for every peer.
HasMemberTOML(author) == author \in Peers

\* Variant: the signature is checked before the roots are compared.
VerifySignatureFirst ==
    IF manifest = NoFile THEN [report |-> "no manifest", panicked |-> FALSE]
    ELSE IF ~HasMemberTOML(manifest.author)
    THEN [report |-> "author not found", panicked |-> FALSE]
    ELSE LET computedRoot == ComputeMerkleRoot(collectFileHashes)
         IN  IF ~VerifyMerkleRoot(manifest.root_hash, manifest.signature,
                                  PublicKeyOf(manifest.author))
             THEN [report |-> "signature failed", panicked |-> FALSE]
             ELSE IF computedRoot # manifest.root_hash
             THEN [report |-> "root mismatch", panicked |-> computedRoot = EmptyRoot]
             ELSE [report |-> "ok", panicked |-> FALSE]

\* runVerify: what the command reports.  The mismatch report prints the first
\* 16 characters of the computed root, which the empty root does not have.
VerifyReport ==
    IF manifest = NoFile THEN [report |-> "no manifest", panicked |-> FALSE]
    ELSE IF ~HasMemberTOML(manifest.author)
    THEN [report |-> "author not found", panicked |-> FALSE]
    ELSE LET computedRoot == ComputeMerkleRoot(collectFileHashes)
         IN  IF computedRoot # manifest.root_hash
             THEN [report |-> "root mismatch", panicked |-> computedRoot = EmptyRoot]
             ELSE IF ~VerifyMerkleRoot(manifest.root_hash, manifest.signature,
                                       PublicKeyOf(manifest.author))
             THEN [report |-> "signature failed", panicked |-> FALSE]
             ELSE [report |-> "ok", panicked |-> FALSE]

\* mlsgit verify
runVerify ==
    /\ verified = NoVerdict
    /\ verified' = VerifyReport
    /\ UNCHANGED <<groupVars, committedFile, chainVars, filterVars, archiveFile,
                   memberVars,
                   epochMarker, staged, manifest, lastSeal>>

\* The manifest the last seal wrote is edited by someone with write access:
\* the root is replaced by the root of the present index, the signature by one
\* a peer makes over the root the manifest names, or the author by another
\* peer or by a name without a member file.
alterManifest(field, q) ==
    /\ manifest # NoFile
    /\ manifest = lastSeal.manifest
    /\ \E value \in {CASE field = "root_hash" -> ComputeMerkleRoot(collectFileHashes)
                       [] field = "signature" ->
                            SignMerkleRoot(manifest.root_hash, SigningKeyOf(q))
                       [] field = "author" -> q} :
           /\ manifest[field] # value
           /\ manifest' = [manifest EXCEPT ![field] = value]
    /\ verified' = NoVerdict
    /\ UNCHANGED <<groupVars, committedFile, chainVars, filterVars, archiveFile,
                   memberVars,
                   epochMarker, staged, lastSeal>>

\* The working tree after mlsgit init by one of the peers.
InitSeal ==
    \E p \in Peers :
        /\ grp = [q \in Peers |-> IF q = p THEN Create(p) ELSE NoGroup]
        /\ joined = {p}
        /\ welcomes = {}
        /\ commits = {[bytes |-> ToBytes(Create(p)), secret |-> ExportEpochSecret(Create(p))]}
        /\ forked = FALSE
        /\ committedFile = ToBytes(Create(p))
        /\ chain = <<>>
        /\ text = <<>>
        /\ readBack = NoRead
        /\ cache = [q \in Peers |-> NoEntry]
        /\ fEpoch = 0
        /\ threshold = MaxThreshold
        /\ archiveFile = Encrypt(NewWithSecret(Create(p).epoch, ExportEpochSecret(Create(p))),
                                 ExportEpochSecret(Create(p)))
        /\ epochMarker = Create(p).epoch
        /\ NoSeal
        /\ memberFiles = {p}
        /\ memberIDs = [q \in Peers |-> q]

NextSeal ==
    \/ \E path \in Paths, blob \in Blobs \cup {0} : gitAdd(path, blob)
    \/ \E p \in Peers : runSeal(p)
    \/ runVerify
    \/ \E field \in {"root_hash", "signature", "author"}, q \in Peers \cup {0} :
          alterManifest(field, q)

SpecSeal == InitSeal /\ [][NextSeal]_vars

\* The index and seal alone: the trees ComputeMerkleRoot is applied to.
NextMerkle ==
    \/ \E path \in Paths, blob \in Blobs \cup {0} : gitAdd(path, blob)
    \/ \E p \in Peers : runSeal(p)

SpecMerkle == InitSeal /\ [][NextMerkle]_vars

\* ================================================================== claims
Last(s) == s[Len(s)]

\* The peer that owns the key pair behind a member entry's init_pub.
InitPrivFor(initPub) == initPub

\* C1 (as stated): any two peers at the same epoch number export byte-equal
\* epoch secrets, whatever sequence of calls led each of them there, forks
\* included.
C1_SameEpochSameSecret ==
    \A p \in joined, q \in joined :
        grp[p].epoch = grp[q].epoch
            => ExportEpochSecret(grp[p]) = ExportEpochSecret(grp[q])

\* C1 (amended): as long as every AddMember and RemoveMember was called by a
\* peer whose local epoch was the highest epoch reached in the group (no two
\* membership changes start from the same epoch), any two peers at the same
\* epoch number export byte-equal epoch secrets.
C1_LinearSameEpochSameSecret ==
    ~forked => C1_SameEpochSameSecret

\* Two peers stand at the same epoch, past a removal, on an unforked history.
C1_Witness ==
    /\ ~forked
    /\ \E p \in joined, q \in joined :
        /\ p # q
        /\ grp[p].epoch = grp[q].epoch
        /\ grp[p].epoch >= 2
        /\ \E i \in 1..Len(grp[p].epoch_secret) : grp[p].epoch_secret[i][2] > NoUpdate
        /\ \E i \in 1..Len(grp[p].epoch_secret) :
              grp[p].epoch_secret[i][1] >= 0 /\ grp[p].epoch_secret[i][2] = NoUpdate

\* C2: after a successful RemoveMember(leaf) at epoch e the appended
\* encapsulation is for epoch e, carries an entry for no inactive leaf (the
\* removed one included), none of its entries opens under the key the removed
\* member derives from its init private key, and the deterministic ratchet of
\* the epoch-e secret differs from the epoch-(e+1) secret.
C2_RemovalForwardSecrecy ==
    [][\A p \in Peers, leaf \in 0..MaxPeers :
          (DoRemoveMember(p, leaf) /\ ~RemoveMember(grp[p], p, leaf).err) =>
              LET e == grp[p].epoch
                  enc == Last(grp'[p].update_encaps)
                  removedPriv == InitPrivFor(grp[p].members[leaf + 1].init_pub)
              IN  /\ Len(grp'[p].update_encaps) = Len(grp[p].update_encaps) + 1
                  /\ enc.from_epoch = e
                  /\ \A i \in 1..Len(enc.entries) :
                        /\ enc.entries[i].leaf_index # leaf
                        /\ grp'[p].members[enc.entries[i].leaf_index + 1].active
                        /\ ~AESGCMDecryptOK(
                               deriveEncapKey(X25519(removedPriv, enc.eph_pub), e),
                               enc.entries[i].ciphertext)
                  /\ advanceEpoch(grp[p]).epoch_secret # grp'[p].epoch_secret
    ]_vars

\* A remover stands right after its removal, and the removed peer still holds
\* its pre-removal state at the epoch of the removal.
C2_Witness ==
    \E p \in joined, q \in joined :
        /\ p # q
        /\ grp[p].update_encaps # <<>>
        /\ Last(grp[p].update_encaps).from_epoch = grp[p].epoch - 1
        /\ Last(grp[p].epoch_secret)[2] = FreshId(p, grp[p].epoch - 1) + 1
        /\ grp[q].epoch = grp[p].epoch - 1
        /\ grp[q].own_leaf_index < Len(grp[p].members)
        /\ ~grp[p].members[grp[q].own_leaf_index + 1].active
        /\ \A i \in 1..Len(Last(grp[p].update_encaps).entries) :
              Last(grp[p].update_encaps).entries[i].leaf_index # grp[q].own_leaf_index

\* C3: on an unforked history, a peer p that holds the secret of epoch n
\* and is active in a committed state of epoch n+k, k >= 1, that a member's
\* AddMember or RemoveMember returned, reaches epoch n+k with the secret that
\* member exported, by one SyncFromCommitted call on that committed state.
C3_CatchUp ==
    ~forked =>
        \A p \in joined, c \in commits :
            LET committed == UnmarshalCommitted(c.bytes)
                r == SyncFromCommitted(grp[p], InitPrivOf(p), c.bytes)
            IN  ( /\ committed.epoch > grp[p].epoch
                  /\ grp[p].own_leaf_index < Len(committed.members)
                  /\ committed.members[grp[p].own_leaf_index + 1].active )
                => /\ r.ret
                   /\ r.g.epoch = committed.epoch
                   /\ ExportEpochSecret(r.g) = c.secret

\* A peer two or more epochs behind catches up across an add and a removal.
C3_Witness ==
    /\ ~forked
    /\ \E p \in joined, c \in commits :
        LET committed == UnmarshalCommitted(c.bytes)
            r == SyncFromCommitted(grp[p], InitPrivOf(p), c.bytes)
        IN  /\ committed.epoch >= grp[p].epoch + 2
            /\ grp[p].own_leaf_index < Len(committed.members)
            /\ committed.members[grp[p].own_leaf_index + 1].active
            /\ \E i \in 1..Len(committed.update_encaps) :
                  committed.update_encaps[i].from_epoch >= grp[p].epoch
            /\ \E e \in grp[p].epoch..(committed.epoch - 1) :
                  \A i \in 1..Len(committed.update_encaps) :
                      committed.update_encaps[i].from_epoch # e
            /\ r.ret
            /\ ExportEpochSecret(r.g) = c.secret

\* C4: every successful AddMember or RemoveMember raises the caller's epoch by
\* exactly one, and no step (ApplyCommit and SyncFromCommitted included, on
\* any committed bytes) lowers any peer's epoch.
C4_EpochMonotone ==
    [][\A p \in Peers :
          /\ grp'[p].epoch >= grp[p].epoch
          /\ (\E q \in Peers : DoAddMember(p, q)) => grp'[p].epoch = grp[p].epoch + 1
          /\ (\E leaf \in 0..MaxPeers :
                 DoRemoveMember(p, leaf) /\ ~RemoveMember(grp[p], p, leaf).err)
             => grp'[p].epoch = grp[p].epoch + 1
    ]_vars

\* A peer has gone through an add and a removal, another has caught up by sync.
C4_Witness ==
    \E p \in joined, q \in joined :
        /\ p # q
        /\ grp[p].epoch >= 2
        /\ Last(grp[p].epoch_secret)[2] = FreshId(p, grp[p].epoch - 1) + 1
        /\ grp[q].epoch = grp[p].epoch
        /\ grp[q].epoch_secret = grp[p].epoch_secret

CommittedKeys == {"group_id", "epoch", "members", "update_encaps"}

\* C6: the committed bytes of every reachable group, and the commit returned
\* by every AddMember and RemoveMember call, carry only group_id, epoch,
\* members and update_encaps: never epoch_secret or own_leaf_index.
C6_CommittedExcludesSecret ==
    \A p \in joined :
        /\ DOMAIN ToCommittedBytes(grp[p]) \subseteq CommittedKeys
        /\ \A q \in Peers :
              DOMAIN AddMember(grp[p], p, BuildKeyPackage(q)).commit \subseteq CommittedKeys
        /\ \A leaf \in 0..(Len(grp[p].members) - 1) :
              ~RemoveMember(grp[p], p, leaf).err
                  => DOMAIN RemoveMember(grp[p], p, leaf).commit \subseteq CommittedKeys

\* A group holding a secret, an own leaf index above 0 and encapsulations.
C6_Witness ==
    \E p \in joined :
        /\ grp[p].own_leaf_index > 0
        /\ grp[p].update_encaps # <<>>
        /\ "update_encaps" \in DOMAIN ToCommittedBytes(grp[p])

\* The local peer's leaf is inactive in, or missing from, the committed state.
RemovedIn(g, c) ==
    \/ g.own_leaf_index >= Len(c.members)
    \/ ~c.members[g.own_leaf_index + 1].active

\* C7: SyncFromCommitted returns false and leaves the group
\* unchanged whenever the committed state has the local leaf inactive or
\* missing, or has committed.epoch < local.epoch.
C7_RefusesWhenRemovedOrBehind ==
    \A p \in joined : \A bytes \in StorageInputs :
        UnmarshalOK(bytes) =>
            LET c == UnmarshalCommitted(bytes)
                r == SyncFromCommitted(grp[p], InitPrivOf(p), bytes)
            IN  (RemovedIn(grp[p], c) \/ c.epoch < grp[p].epoch)
                    => (~r.ret /\ r.g = grp[p])

\* C8: whenever SyncFromCommitted returns false, on any committed bytes, the
\* group state after the call is the group state before it.
C8_FalseMeansNoOp ==
    [][\A p \in Peers : \A bytes \in StorageInputs :
          (DoSyncFromStorage(p, bytes)
              /\ ~SyncFromCommitted(grp[p], InitPrivOf(p), bytes).ret)
          => grp'[p] = grp[p]
    ]_vars

\* C5: at no point in any run of init, add and remove does the committed
\* group-state location hold a blob with the epoch secret or the own leaf
\* index.
C5_CommittedLocationHoldsCommittedForm ==
    committedFile # NoFile
        => DOMAIN committedFile \cap {"epoch_secret", "own_leaf_index"} = {}

\* C9: the chain built by EncryptBaseBlock and k EncryptDelta calls, each
\* carrying ComputeDelta of the previous and the new plaintext, under any
\* non-decreasing epochs, is accepted by DecryptChain, which returns the last
\* plaintext.
C9_ChainRoundTrip ==
    /\ chain # <<>> =>
          DecryptChain(chain, FilePath) = [err |-> "none", text |-> text]
    /\ readBack.field = "untampered" =>
          readBack.res = [err |-> "none", text |-> text]

\* A chain of a base and two deltas written under two epochs, whose last
\* plaintext differs from the one before, was decrypted.
C9_Witness ==
    /\ Len(chain) >= 3
    /\ chain[1].epoch # chain[Len(chain)].epoch
    /\ chain[Len(chain)].ct.pt # <<>>
    /\ chain[2].ct.pt # <<>>
    /\ readBack.field = "untampered"
    /\ readBack.res.text = text

\* C10: after any single field of any record of a chain was changed,
\* DecryptChain fails instead of returning a plaintext.
C10_TamperDetected ==
    readBack.field \in RecordFields => readBack.res.err # "none"

\* The members sequence new continues old: every old position is still there
\* with the same keys, and no position that was inactive is active.
MembersExtend(old, new) ==
    /\ Len(new) >= Len(old)
    /\ \A i \in 1..Len(old) :
          /\ new[i].sig_pub = old[i].sig_pub
          /\ new[i].init_pub = old[i].init_pub
          /\ ~old[i].active => ~new[i].active

\* C19: every AddMember appends exactly one active entry at leaf index
\* len(members), inactive leaves or not, and leaves every earlier entry as it
\* was; the Welcome it returns carries that index, so the joiner's own leaf is
\* the entry with its keys; every RemoveMember keeps the length and the keys
\* of every entry and reactivates no leaf; and on an unforked history no other
\* step shrinks or reorders a peer's members or reactivates a leaf.
C19_LeafIndicesNeverReused ==
    [][\A p \in Peers :
          /\ \A q \in Peers : DoAddMember(p, q) =>
                LET old == grp[p].members
                    new == grp'[p].members
                IN  /\ Len(new) = Len(old) + 1
                    /\ \A i \in 1..Len(old) : new[i] = old[i]
                    /\ new[Len(old) + 1].init_pub = InitPubOf(q)
                    /\ new[Len(old) + 1].active
                    /\ \A w \in welcomes' \ welcomes :
                          /\ w.box.pt.leaf_index = Len(old)
                          /\ w.box.pt.members = new
          /\ \A leaf \in -1..MaxPeers : DoRemoveMember(p, leaf) =>
                /\ Len(grp'[p].members) = Len(grp[p].members)
                /\ MembersExtend(grp[p].members, grp'[p].members)
          /\ (p \in joined' \ joined) =>
                /\ grp'[p].own_leaf_index < Len(grp'[p].members)
                /\ grp'[p].members[grp'[p].own_leaf_index + 1].init_pub = InitPubOf(p)
          /\ (p \in joined /\ ~forked') =>
                MembersExtend(grp[p].members, grp'[p].members)
    ]_vars

\* A peer added a member while an earlier leaf was inactive, and the new
\* member took the next index, not the inactive one.
C19_Witness ==
    \E p \in joined :
        LET m == grp[p].members
        IN  /\ Len(m) >= 3
            /\ \E i \in 2..(Len(m) - 1) : ~m[i].active
            /\ m[Len(m)].active
            /\ Last(grp[p].epoch_secret)[2] = NoUpdate
            /\ \E w \in welcomes : /\ w.box.pt.leaf_index = Len(m) - 1
                                   /\ w.box.pt.members = m

\* C20: RemoveMember with a leaf index below 0, at or above len(members), or
\* equal to own_leaf_index returns an error and the group after the call is
\* the group before it (epoch, epoch secret, members, update_encaps).
C20_RemoveRejectsBadLeaf ==
    \A p \in joined : \A leaf \in -1..(MaxPeers + 1) :
        ( \/ leaf < 0
          \/ leaf >= Len(grp[p].members)
          \/ leaf = grp[p].own_leaf_index )
        => LET r == RemoveMember(grp[p], p, leaf)
           IN  /\ r.err
               /\ r.g.epoch = grp[p].epoch
               /\ r.g.epoch_secret = grp[p].epoch_secret
               /\ r.g.members = grp[p].members
               /\ r.g.update_encaps = grp[p].update_encaps

\* A peer that is not at leaf 0, in a group of two or more entries, where
\* removing leaf 0 succeeds and removing its own leaf or leaf len(members) is
\* refused.
C20_Witness ==
    \E p \in joined :
        /\ grp[p].own_leaf_index > 0
        /\ Len(grp[p].members) >= 2
        /\ ~RemoveMember(grp[p], p, 0).err
        /\ RemoveMember(grp[p], p, grp[p].own_leaf_index).err
        /\ RemoveMember(grp[p], p, Len(grp[p].members)).err
        /\ RemoveMember(grp[p], p, -1).err

\* What the signature of a record covers, and what the writer produced it from.
Signed(record) == [iv |-> record.iv, ct |-> record.ct, sig |-> record.sig]

IsPrefix(a, b) == Len(a) <= Len(b) /\ \A k \in 1..Len(a) : a[k] = b[k]

\* C11: whatever a party without keys stores in place of a chain (records
\* dropped from the middle, neighbouring deltas exchanged, a delta repeated,
\* prev_hash values rewritten to fit), every chain DecryptChain accepts lists
\* the signed records in the order the writer produced them.
C11_AcceptedChainInWriteOrder ==
    (readBack.field \in RearrangeKinds /\ readBack.res.err = "none")
        => IsPrefix([k \in 1..Len(readBack.stored) |-> Signed(readBack.stored[k])],
                    [k \in 1..Len(chain) |-> Signed(chain[k])])

\* C12: Smudge of an emitted chain in which a byte was altered ends in an
\* error: it does not return bytes with success and does not change the cache.
C12_AlteredChainFails ==
    \A stored \in Altered(chain) :
        LET r == Smudge(stored, cache[FilterPeer], FilePath)
        IN  /\ r.err # "none"
            /\ r.cache = cache[FilterPeer]

\* C13: whenever the cache holds, for the path, a plaintext equal to the
\* input and a ciphertext, Clean returns the cached ciphertext and leaves the
\* cache as it was, whatever the epoch and the threshold; so staging the same
\* text again right after a Clean returns the chain that Clean emitted, and
\* staging the plaintext a successful Smudge of stored bytes c returned
\* returns c.
C13_CleanIdempotent ==
    LET entry == cache[FilterPeer]
        Again(plaintext, epoch, t) ==
            Clean(plaintext, entry, epoch, EpochSecretAt(epoch), t, Author,
                  SigningKeyOf(Author))
    IN  \A epoch \in ArchiveEpochs, t \in Thresholds :
           /\ (entry.hasPlain /\ entry.hasCT) =>
                 Again(entry.plain, epoch, t) = [out |-> entry.ct, cache |-> entry]
           /\ (chain # <<>> /\ readBack = NoRead) =>
                 Again(text, epoch, t) = [out |-> chain, cache |-> entry]
           /\ (readBack.field = "stored" /\ readBack.res.err = "none" /\ ~readBack.passed) =>
                 Again(readBack.res.text, epoch, t) = [out |-> readBack.stored, cache |-> entry]

\* After a Clean that extended a chain, and after a Smudge of an earlier
\* version: a cache entry whose chain has deltas, at an epoch later than the
\* base block's.
C13_Witness ==
    /\ readBack.field = "stored"
    /\ readBack.res.err = "none"
    /\ Len(readBack.stored) >= 2
    /\ Len(readBack.stored) < Len(chain)
    /\ cache[FilterPeer].ct = readBack.stored
    /\ cache[FilterPeer].plain # text
    /\ fEpoch > chain[1].epoch

\* C14: whatever was staged and smudged before, under whatever thresholds and
\* epochs, Smudge of the chain Clean emitted last returns the plaintext staged
\* last.
C14_SmudgeReturnsLastStaged ==
    chain # <<>> =>
        LET r == Smudge(chain, cache[FilterPeer], FilePath)
        IN  /\ r.err = "none"
            /\ ~r.passed
            /\ r.text = text

\* An earlier version was smudged after the last Clean, the last Clean had
\* compacted or extended a chain under a later epoch, and the emitted chain
\* decrypts to the staged text.
C14_Witness ==
    /\ Len(chain) >= 2
    /\ chain[Len(chain)].epoch > chain[1].epoch
    /\ readBack.field = "stored"
    /\ readBack.res.text # text
    /\ cache[FilterPeer].plain # text
    /\ Smudge(chain, cache[FilterPeer], FilePath).text = text

\* C15 (as stated): every ciphertext that Clean emits has at most
\* compaction_threshold delta blocks.
C15_EmittedWithinThreshold ==
    [][\A plaintext \in StagedTexts :
          DoClean(plaintext) => Len(chain') - 1 <= threshold
    ]_vars

\* C15 (amended): a Clean call that is not a cache hit emits a single base
\* block under the current epoch when the path has no cached plaintext or no
\* cached ciphertext or the cached chain holds compaction_threshold or more
\* deltas, and otherwise the cached chain extended by exactly one delta, which
\* then has at most compaction_threshold deltas; a cache hit emits the cached
\* chain.
C15_BaseOrOneMoreDelta ==
    [][\A plaintext \in StagedTexts :
          DoClean(plaintext) =>
              LET entry == cache[FilterPeer]
              IN  IF entry.hasPlain /\ entry.plain = plaintext /\ entry.hasCT
                  THEN chain' = entry.ct
                  ELSE IF \/ ~entry.hasPlain
                          \/ ~entry.hasCT
                          \/ Len(entry.ct) - 1 >= threshold
                  THEN /\ Len(chain') = 1
                       /\ chain'[1].seq = 0
                       /\ chain'[1].epoch = fEpoch
                  ELSE /\ Len(chain') = Len(entry.ct) + 1
                       /\ SubSeq(chain', 1, Len(entry.ct)) = entry.ct
                       /\ Len(chain') - 1 <= threshold
    ]_vars

\* Clean has just emitted a chain with as many deltas as the threshold allows,
\* so that staging another text emits a base block; the base block of the
\* chain was itself emitted after a compaction or an invalidation.
C15_Witness ==
    /\ threshold >= 1
    /\ readBack = NoRead
    /\ Len(chain) - 1 = threshold
    /\ cache[FilterPeer].ct = chain
    /\ cache[FilterPeer].plain = text
    /\ chain[1].epoch > 0
    /\ \A plaintext \in StagedTexts \ {text} :
          Len(Clean(plaintext, cache[FilterPeer], fEpoch, EpochSecretAt(fEpoch),
                    threshold, Author, SigningKeyOf(Author)).out) = 1

\* Peer p holds a group and its leaf is active in the committed group state.
CurrentMember(p) ==
    /\ p \in joined
    /\ committedFile # NoFile
    /\ grp[p].own_leaf_index < Len(committedFile.members)
    /\ committedFile.members[grp[p].own_leaf_index + 1].active

\* C16: when an add or a remove command of peer p has advanced the committed
\* epoch, p's filter cache holds nothing for the path once the command is
\* done, and the next Clean emits a base block under the new epoch.
C16_CacheEmptiedOnEpochAdvance ==
    [][\A p \in Peers :
          ( /\ \/ \E q \in Peers : runAdd(p, q)
               \/ \E member \in Peers : runRemove(p, member)
            /\ committedFile'.epoch > committedFile.epoch )
          => /\ cache'[p] = NoEntry
             /\ \A plaintext \in StagedTexts :
                   LET out == Clean(plaintext, cache'[p], grp'[p].epoch,
                                    ExportEpochSecret(grp'[p]), threshold, Author,
                                    SigningKeyOf(Author)).out
                   IN  /\ Len(out) = 1
                       /\ out[1].epoch = grp'[p].epoch
    ]_vars

\* C17: whatever prefix of the writes of an add or a remove reached the disk,
\* the next load by a current member succeeds and gives a group at the
\* committed epoch and an archive holding that epoch's secret.
C17_LoadAfterInterruptedSave ==
    \A p \in Peers :
        CurrentMember(p) =>
            LET st == LoadState(p)
            IN  /\ ~st.err
                /\ st.g.epoch = committedFile.epoch
                /\ Has(st.archive, committedFile.epoch)
                /\ st.archive[committedFile.epoch] = ExportEpochSecret(st.g)

\* C18: after any sequence of completed init, add and remove commands the
\* archive file opens under the secret exported at the committed epoch, and
\* the archive every current member loads (later joiners included) holds, for
\* every epoch from 0 to the committed one, the secret the members exported
\* at that epoch.
C18_ArchiveHoldsEveryEpoch ==
    committedFile # NoFile =>
        /\ {c.bytes.epoch : c \in commits} = 0..committedFile.epoch
        /\ \E c \in commits :
              /\ c.bytes = committedFile
              /\ ~DecryptArchive(archiveFile, c.secret).err
        /\ \A p \in Peers :
              CurrentMember(p) =>
                  LET st == LoadState(p)
                  IN  /\ ~st.err
                      /\ \A c \in commits :
                            /\ Has(st.archive, c.bytes.epoch)
                            /\ st.archive[c.bytes.epoch] = c.secret

\* A member that joined after epoch 0 stands behind the committed epoch and
\* loads an archive that holds epoch 0 and the committed epoch.
C18_Witness ==
    /\ committedFile # NoFile
    /\ committedFile.epoch >= 2
    /\ \E p \in Peers :
          /\ CurrentMember(p)
          /\ grp[p].own_leaf_index > 0
          /\ grp[p].epoch >= 1
          /\ grp[p].epoch < committedFile.epoch
          /\ ~LoadState(p).err
          /\ Has(LoadState(p).archive, 0)
          /\ Has(LoadState(p).archive, committedFile.epoch)

\* C21: every RemoveMember call that succeeds, on any leaf index and after any
\* history of adds and removes, lowers MemberCount by exactly one.
C21_RemoveLowersMemberCount ==
    \A p \in joined : \A leaf \in -1..MaxPeers :
        LET r == RemoveMember(grp[p], p, leaf)
        IN  ~r.err => MemberCount(r.g) = MemberCount(grp[p]) - 1

\* Some RemoveMember call so far was made on the leaf that carries peer p's
\* keys.
RemovedSomewhere(p) ==
    \E c \in commits : \E i \in 1..Len(c.bytes.members) :
        /\ c.bytes.members[i].init_pub = InitPubOf(p)
        /\ ~c.bytes.members[i].active

StrangerKeys == {0, MaxPeers + 1}

\* C23: for every group a peer holds and every key package kp of a peer that
\* is not a member, the Welcome that AddMember(kp) returns opens under the
\* init private key matching kp.init_pub, JoinFromWelcome then yields the
\* adder's post-add epoch, epoch secret, members and update_encaps with
\* own_leaf_index the leaf the add assigned (the joiner's own entry), and
\* under every other init private key the Welcome does not open.
C23_WelcomeJoinsAtAddersState ==
    \A p \in joined : \A q \in Peers :
        ~HasMember(grp[p], InitPubOf(q)) =>
            LET r == AddMember(grp[p], p, BuildKeyPackage(q))
                j == JoinFromWelcome(r.welcome.box.pt)
            IN  /\ DecryptWelcomeOK(InitPrivOf(q), r.welcome)
                /\ j.group_id = r.g.group_id
                /\ j.epoch = r.g.epoch
                /\ j.epoch = grp[p].epoch + 1
                /\ j.epoch_secret = r.g.epoch_secret
                /\ j.members = r.g.members
                /\ j.update_encaps = r.g.update_encaps
                /\ j.own_leaf_index = Len(grp[p].members)
                /\ j.members[j.own_leaf_index + 1].init_pub = InitPubOf(q)
                /\ \A other \in (Peers \cup StrangerKeys) \ {InitPrivOf(q)} :
                      ~DecryptWelcomeOK(other, r.welcome)

\* A peer joined, from a Welcome made after a removal, at a leaf above 1 and
\* holds the adder's secret and encapsulations; the Welcome opens under no
\* other peer's key.
C23_Witness ==
    \E p \in joined, q \in joined : \E w \in welcomes :
        /\ p # q
        /\ DecryptWelcomeOK(InitPrivOf(q), w)
        /\ \A other \in Peers \ {q} : ~DecryptWelcomeOK(InitPrivOf(other), w)
        /\ grp[q] = JoinFromWelcome(w.box.pt)
        /\ grp[q].own_leaf_index >= 2
        /\ grp[q].update_encaps # <<>>
        /\ grp[q].epoch_secret = grp[p].epoch_secret
        /\ grp[q].members = grp[p].members

\* The update_encaps list of committed bytes.
EncapsOf(bytes) == UnmarshalCommitted(bytes).update_encaps

WithForeignEncaps(bytes) ==
    LET c == UnmarshalCommitted(bytes)
    IN  [group_id |-> c.group_id, epoch |-> c.epoch, members |-> c.members,
         update_encaps |-> [i \in 1..(Len(c.update_encaps) + 1) |->
                               [from_epoch |-> i - 1, eph_pub |-> 0, entries |-> <<>>]]]

\* C25: for every committed bytes a peer can be handed whose epoch equals the
\* peer's local epoch, SyncFromCommitted leaves epoch, epoch secret, members,
\* group_id and own_leaf_index as they were, keeps every encapsulation the
\* peer held, in place, and adds only encapsulations of the committed state.
C25_EqualEpochOnlyGainsEncaps ==
    \A p \in joined :
      \A bytes \in StorageInputs \cup {WithForeignEncaps(b) : b \in Committed} :
        LET c == UnmarshalCommitted(bytes)
            g == grp[p]
            r == SyncFromCommitted(g, InitPrivOf(p), bytes)
        IN  (UnmarshalOK(bytes) /\ c.epoch = g.epoch) =>
                /\ r.g.epoch = g.epoch
                /\ r.g.epoch_secret = g.epoch_secret
                /\ r.g.members = g.members
                /\ r.g.group_id = g.group_id
                /\ r.g.own_leaf_index = g.own_leaf_index
                /\ IsPrefix(g.update_encaps, r.g.update_encaps)
                /\ \A i \in (Len(g.update_encaps) + 1)..Len(r.g.update_encaps) :
                      r.g.update_encaps[i] = c.update_encaps[i]
                /\ r.ret = (r.g # g)

\* The first record has seq 0 and an empty prev_hash; the i-th record after
\* it has seq i and the hash of everything in front of it as prev_hash.
WellLinked(ciphertext) ==
    /\ ciphertext[1].seq = 0
    /\ ciphertext[1].prev_hash = EmptyHash
    /\ \A i \in 2..Len(ciphertext) :
          /\ ciphertext[i].seq = i - 1
          /\ ciphertext[i].prev_hash = hashPrefix(SubSeq(ciphertext, 1, i - 1))

\* What Clean emits for any staged text from cache entry `entry`.
EmittedFrom(entry) ==
    {Clean(plaintext, entry, fEpoch, EpochSecretAt(fEpoch), threshold, Author,
           SigningKeyOf(Author)).out : plaintext \in StagedTexts}

\* C26: every chain Clean emits is well linked (seq 0 and empty prev_hash
\* first, then seq i and the hash of the preceding chain text), after any
\* sequence of Clean calls and of Smudge calls that returned a plaintext,
\* whether Smudge was given an emitted chain, an earlier version of it, or a
\* chain altered in storage.
C26_EmittedChainWellLinked ==
    /\ chain # <<>> => WellLinked(chain)
    /\ \A ct \in EmittedFrom(cache[FilterPeer]) : WellLinked(ct)
    /\ chain # <<>> =>
          \A stored \in Altered(chain) :
              LET s == Smudge(stored, cache[FilterPeer], FilePath)
              IN  (s.err = "none" /\ ~s.passed) =>
                      \A ct \in EmittedFrom(s.cache) : WellLinked(ct)

\* What a smudge can be handed in a working tree: a ciphertext some peer's
\* clean emitted, or bytes that are no ciphertext.
SmudgeInputs == NonCiphertexts \cup {cache[q].ct : q \in {r \in Peers : cache[r].hasCT}}

\* C27 (as stated): with no local group state Clean and Smudge return their
\* input unchanged, and Smudge returns every input that does not look like
\* ciphertext unchanged; the cache is not modified in either case.
C27_PassThroughAsStated ==
    \A p \in Peers :
        /\ p \notin joined =>
              /\ \A stdinData \in StagedTexts :
                     LET r == CleanAs(p, stdinData)
                     IN  ~r.err /\ r.passed /\ r.cache = cache[p]
              /\ \A stdinData \in SmudgeInputs :
                     LET r == SmudgeAs(p, stdinData)
                     IN  ~r.err /\ r.passed /\ r.cache = cache[p]
        /\ \A stdinData \in SmudgeInputs :
               ~LooksCritCiphertext(stdinData) =>
                   LET r == SmudgeAs(p, stdinData)
                   IN  ~r.err /\ r.passed /\ r.cache = cache[p]

\* C27 (amended): with no local group state Clean and Smudge return their
\* input unchanged; when the local state loads, Smudge returns every input
\* that does not look like ciphertext unchanged; when the load fails the call
\* returns the error of the load and not the input.  The cache is not modified
\* in any of these cases.
C27_PassThroughWhenLoaded ==
    \A p \in Peers :
        /\ p \notin joined =>
              /\ \A stdinData \in StagedTexts :
                     LET r == CleanAs(p, stdinData)
                     IN  ~r.err /\ r.passed /\ r.cache = cache[p]
              /\ \A stdinData \in SmudgeInputs :
                     LET r == SmudgeAs(p, stdinData)
                     IN  ~r.err /\ r.passed /\ r.cache = cache[p]
        /\ p \in joined =>
              \A stdinData \in SmudgeInputs :
                  ~LooksCritCiphertext(stdinData) =>
                      LET r == SmudgeAs(p, stdinData)
                      IN  /\ r.cache = cache[p]
                          /\ r.err = LoadState(p).err
                          /\ r.passed = ~r.err

\* A state where every case happens: a peer without local state next to a
\* ciphertext another peer's clean emitted, and a joined peer whose state loads.
C27_Witness ==
    /\ \E p \in Peers : p \notin joined /\ \E q \in joined : cache[q].hasCT
    /\ \E p \in joined : ~LoadState(p).err

\* Since the last seal some path that was sealed has been staged with another
\* ciphertext.
SealedCiphertextChanged ==
    /\ lastSeal # NoFile
    /\ \E path \in Paths :
           /\ lastSeal.staged[path] # 0
           /\ staged[path] \notin {0, lastSeal.staged[path]}

\* C28: verify compares the recomputed root with the manifest root before it
\* checks the signature.  With the manifest as seal wrote it, verify succeeds
\* when the index is as it was sealed and reports a root mismatch when a sealed
\* ciphertext was changed; a signature failure is reported only when the
\* recomputed root equals the manifest root, so never for a changed ciphertext.
C28_RootComparedBeforeSignature ==
    verified.report # "none" =>
        /\ (lastSeal # NoFile /\ manifest = lastSeal.manifest) =>
              /\ staged = lastSeal.staged => verified = [report |-> "ok", panicked |-> FALSE]
              /\ SealedCiphertextChanged =>
                     verified = [report |-> "root mismatch", panicked |-> FALSE]
        /\ verified.report = "signature failed" =>
              /\ ComputeMerkleRoot(collectFileHashes) = manifest.root_hash
              /\ lastSeal # NoFile /\ manifest # lastSeal.manifest
        /\ (SealedCiphertextChanged /\ manifest.root_hash = lastSeal.manifest.root_hash) =>
              verified.report \in {"root mismatch", "author not found"}

\* verify has reported a root mismatch for a tree of two files, one of which
\* was changed after the seal, while the signature in the manifest is no longer
\* the sealer's.
C28_Witness ==
    /\ verified.report = "root mismatch"
    /\ SealedCiphertextChanged
    /\ \A path \in Paths : staged[path] # 0
    /\ manifest.root_hash = lastSeal.manifest.root_hash
    /\ ~VerifyMerkleRoot(manifest.root_hash, manifest.signature, PublicKeyOf(manifest.author))

\* The orderings in which the entries of fileHashes can be handed over.
Orderings(fileHashes) ==
    LET n == Len(fileHashes)
    IN  {[i \in 1..n |-> fileHashes[f[i]]] :
            f \in {g \in [1..n -> 1..n] : \A i, j \in 1..n : g[i] = g[j] => i = j}}

\* C29: ComputeMerkleRoot returns the same root for every ordering of the
\* (path, leaf hash) entries of the tracked files.
C29_RootIgnoresInputOrder ==
    \A o \in Orderings(collectFileHashes) :
        ComputeMerkleRoot(o) = ComputeMerkleRoot(collectFileHashes)

\* A tree of three files was sealed: its entries have six orderings, and the
\* third node of the first level is paired with itself.
C29_Witness ==
    /\ lastSeal # NoFile
    /\ staged = lastSeal.staged
    /\ Len(collectFileHashes) = 3
    /\ Cardinality(Orderings(collectFileHashes)) = 6
    /\ manifest.root_hash = ComputeMerkleRoot(collectFileHashes)

\* The own leaf of g is a leaf of the committed state c that is no longer
\* active: the member was removed at an epoch before c.epoch.
LeafRemovedIn(g, c) ==
    /\ g.own_leaf_index < Len(c.members)
    /\ ~c.members[g.own_leaf_index + 1].active

\* C30: a member removed at epoch r never moves its local state past r.  On a
\* history without a fork, a peer whose leaf is inactive in a committed state
\* of epoch e (so r < e) stays below e and holds the secret of no committed
\* epoch later than r, and every ApplyCommit and SyncFromCommitted call it
\* makes on a committed state leaves it so.
C30_RemovedMemberStaysBehind ==
    ~forked =>
        \A p \in joined : \A b \in Committed :
            LeafRemovedIn(grp[p], UnmarshalCommitted(b)) =>
                LET e == UnmarshalCommitted(b).epoch
                    Behind(g) == /\ g.epoch < e
                                 /\ \A c \in commits :
                                        UnmarshalCommitted(c.bytes).epoch >= e
                                            => ExportEpochSecret(g) # c.secret
                IN  /\ Behind(grp[p])
                    /\ \A bytes \in Committed :
                           /\ Behind(ApplyCommit(grp[p], InitPrivOf(p), bytes).g)
                           /\ Behind(SyncFromCommitted(grp[p], InitPrivOf(p), bytes).g)

\* A removed peer that joined at an earlier epoch has ratcheted up to the
\* epoch of its removal, where ApplyCommit stopped.
C30_Witness ==
    /\ ~forked
    /\ \E p \in joined : \E b \in Committed :
           /\ LeafRemovedIn(grp[p], UnmarshalCommitted(b))
           /\ grp[p].epoch = UnmarshalCommitted(b).epoch - 1
           /\ Len(grp[p].members) < Len(UnmarshalCommitted(b).members)
           /\ ApplyCommit(grp[p], InitPrivOf(p), b).err

\* C31: when AddMember or RemoveMember returns an error the group state is as
\* it was before the call: members, encapsulations, epoch and epoch secret.
C31_ErrorLeavesGroupUnchanged ==
    \A p \in joined :
        /\ \A kp \in KeyPackages :
               AddMember(grp[p], p, kp).err => AddMember(grp[p], p, kp).g = grp[p]
        /\ \A leaf \in -1..MaxPeers :
               RemoveMember(grp[p], p, leaf).err => RemoveMember(grp[p], p, leaf).g = grp[p]

\* C32: for every peer whose local state loads and every other member that
\* has a member file, the group state the remove command computes for that
\* member's id keeps inactive the leaves that were inactive and marks
\* inactive the leaf assigned to that member when it was added, and no other.
C32_RemoveMarksAssignedLeaf ==
    \A p \in joined : \A member \in memberFiles \ {p} :
        LET st == LoadState(p)
            r == RemoveMember(st.g, p, leafIndexOf(member))
        IN  ~st.err
            => /\ ~r.err
               /\ \A i \in 1..Len(st.g.members) :
                      r.g.members[i].active
                      = ( /\ st.g.members[i].active
                          /\ st.g.members[i].init_pub # InitPubOf(member) )

\* C33: when a remove command has advanced the committed epoch, every peer
\* that is still a member and whose Smudge returned a plaintext for the
\* stored chain before the command gets a plaintext for it after the command.
C33_HistoryReadableAfterRemove ==
    [][\A p \in Peers, member \in Peers :
          (runRemove(p, member) /\ committedFile' # committedFile /\ chain # <<>>)
          => \A q \in Peers :
                 (CurrentMember(q)' /\ q \in joined /\ SmudgeIn(q, FilePath, chain).err = "none")
                 => (SmudgeIn(q, FilePath, chain).err = "none")']_vars

\* C34: a chain that Clean produced for the tracked path is rejected by the
\* Smudge of every joined peer when it is presented at another path.
C34_ChainRejectedAtOtherPath ==
    \A p \in joined :
        chain # <<>> => SmudgeIn(p, OtherPath, chain).err # "none"

\* C35: in every state an invocation of the filter can start in, a cache
\* entry that holds both a plaintext and a ciphertext holds a chain that
\* decrypts to exactly that plaintext.
C35_CachedChainDecryptsToCachedPlain ==
    \A p \in Peers :
        (cache[p].hasPlain /\ cache[p].hasCT)
        => DecryptChain(cache[p].ct, FilePath) = [err |-> "none", text |-> cache[p].plain]

\* The committed bytes name the peer's own leaf as an active member.
ActiveIn(bytes, g) ==
    /\ UnmarshalOK(bytes)
    /\ g.own_leaf_index < Len(UnmarshalCommitted(bytes).members)
    /\ UnmarshalCommitted(bytes).members[g.own_leaf_index + 1].active

\* C36: for every joined peer and all committed bytes, as written or altered
\* in storage, that are ahead of the peer's epoch and in which the peer's
\* leaf is active, ApplyCommit and SyncFromCommitted leave the same group
\* state.
C36_ApplyAndSyncAgree ==
    \A p \in joined : \A bytes \in StorageInputs :
        (ActiveIn(bytes, grp[p]) /\ UnmarshalCommitted(bytes).epoch > grp[p].epoch)
        => ApplyCommit(grp[p], InitPrivOf(p), bytes).g
           = SyncFromCommitted(grp[p], InitPrivOf(p), bytes).g

\* A peer two epochs behind committed bytes that carry an encapsulation and
\* keep it active: both calls catch up.
C36_Witness ==
    \E p \in joined : \E bytes \in Committed :
        /\ ActiveIn(bytes, grp[p])
        /\ UnmarshalCommitted(bytes).epoch >= grp[p].epoch + 2
        /\ UnmarshalCommitted(bytes).update_encaps # <<>>
        /\ SyncFromCommitted(grp[p], InitPrivOf(p), bytes).ret
        /\ SyncFromCommitted(grp[p], InitPrivOf(p), bytes).g.epoch
           = UnmarshalCommitted(bytes).epoch

\* C37: for every joined peer and all committed bytes ahead of its epoch, as
\* written or altered in storage, the catch-up loop of ApplyCommit and
\* SyncFromCommitted is over after at most committed.epoch - local.epoch
\* calls of advanceOneEpoch; every call raises the local epoch by exactly one,
\* or is the last one and returned an error; the loop leaves the state of
\* the last call.
C37_RatchetStepsBounded ==
    \A p \in joined : \A bytes \in RatchetInputs :
        LET committed == UnmarshalCommitted(bytes)
            run == RatchetRun(grp[p], InitPrivOf(p), committed,
                              committed.epoch - grp[p].epoch)
            n == Len(run.steps)
        IN  (UnmarshalOK(bytes) /\ committed.epoch > grp[p].epoch)
            => /\ run.end \in {"done", "abort"}
               /\ n <= committed.epoch - grp[p].epoch
               /\ \A i \in 1..n :
                      \/ run.steps[i].epoch
                         = (IF i = 1 THEN grp[p] ELSE run.steps[i - 1]).epoch + 1
                      \/ i = n /\ run.end = "abort"
               /\ Ratchet(grp[p], InitPrivOf(p), committed).g = run.steps[n]

\* A peer catches up over two epochs, one of them by decapsulation; and a
\* peer whose first call is refused.
C37_Witness ==
    /\ \E p \in joined : \E bytes \in Committed :
           LET committed == UnmarshalCommitted(bytes)
               run == RatchetRun(grp[p], InitPrivOf(p), committed,
                                 committed.epoch - grp[p].epoch)
           IN  /\ committed.epoch >= grp[p].epoch + 2
               /\ committed.update_encaps # <<>>
               /\ run.end = "done"
               /\ Len(run.steps) = committed.epoch - grp[p].epoch
    /\ \E p \in joined : \E bytes \in RatchetInputs :
           /\ UnmarshalOK(bytes)
           /\ UnmarshalCommitted(bytes).epoch > grp[p].epoch
           /\ RatchetRun(grp[p], InitPrivOf(p), UnmarshalCommitted(bytes), 1).end = "abort"

\* The paths a file can be tracked at: the root attributes file hands every
\* path outside .mlsgit to the filter, whatever its name.
TrackablePaths == {FilePath, OtherPath, "mlsgit-archive"}

\* C38: for every exported epoch secret of the history, the key that encrypts
\* the archive under that secret differs from the file key of every trackable
\* path at every epoch.
C38_ArchiveKeyApartFromFileKeys ==
    \A c \in commits : \A path \in TrackablePaths : \A epoch \in 0..MaxCommands :
        deriveArchiveKey(c.secret) # DeriveFileKey(c.secret, path, epoch)

====
